---- MODULE Spec2Model ----
(***************************************************************************)
(* The session daemon of agent-browser (src/src/daemon.ts): startup, the   *)
(* per-connection framing / dispatch loop, the auto-launch gate, the three *)
(* teardown paths (close command, signals, process errors) and the on-disk *)
(* artifacts of the session.                                               *)
(*                                                                         *)
(* Scheduling is Node's: a handler runs without interruption up to its     *)
(* next await; every await of a collaborator (browser.launch,              *)
(* executeCommand, streamServer.start/stop, browser.close) is a suspension *)
(* point at which any other event (data, signal, timer, error) may run.    *)
(*                                                                         *)
(* Specifications:                                                         *)
(*   Spec        the daemon, any bind outcome;                             *)
(*   LiveSpec    Spec with the fairness of timers and settled awaits;      *)
(*   PeerSpec    the daemon started while a daemon of the same session may *)
(*               be alive, the bind outcome decided by the endpoint;       *)
(*   FrameSpec   one connection fed a logical stream in arbitrary chunks;  *)
(*   TrackerSpec isDaemonRunning and cleanupSocket over the artifacts of   *)
(*               several sessions;                                         *)
(*   IsolationSpec Spec with the calls of one connection settling;         *)
(*   HashSpec    getPortForSession over bounded session names;             *)
(*   ResolverSpec getSocketPath / getConnectionInfo beside setSession;     *)
(*   DiskSpec    the artifact paths of several sessions in one directory;  *)
(*   RecorderSpec a CodegenRecorder: recordAction, generate, save,         *)
(*               getStatus;                                                *)
(*   ConfigSpec  startDaemon under any stream port option and environment; *)
(*   GateSpec    the auto-launch gate with the recorder auto-start;        *)
(*   OwnerSpec   FrameSpec beside a second connection.                     *)
(***************************************************************************)
EXTENDS Integers, Sequences, FiniteSets, TLC

\* ------------------------------------------------------------------ bounds
\* Number of 'data' events delivered over all connections.
MaxData == 2

\* Number of collaborator calls (launch, driver, stop, close) that may fail.
MaxFail == 1

\* Length of the logical stream fed to one connection in FrameSpec.
MaxLen == 4

\* The connections accepted by the listener.
Conns == {1, 2}

\* ------------------------------------------------------------- the alphabet
\* A byte stream is a sequence of characters.  NL is the framing delimiter,
\* SP a whitespace character; the other characters stand for payloads:
\*   "n" a well-formed non-lifecycle command      "l" a launch command
\*   "c" a close command                          "x" an undecodable payload
\*   "y" an undecodable payload whose id the codec can salvage
NL == "nl"
SP == "sp"

\* daemon.ts:20
DEFAULT_STREAM_PORT == 9223

\* The chunks a client may send in one data event: whole lines, a line split
\* over two chunks ("n" then SP NL), a whitespace-only line (SP NL alone).  A
\* close command comes with another line behind it in the same chunk, which
\* tells a handler that returns from one that goes on with its loop.
Chunks ==
  { <<"n", NL>>, <<"l", NL>>, <<"x", NL>>,
    <<"n">>, <<SP, NL>>,
    <<"c", NL, "n", NL>> }

VARIABLES
  isWindows,     \* process.platform === 'win32'
  streamPort,    \* the configured stream port (option or environment)
  dpc,           \* position of startDaemon
  files,         \* artifacts of the current session that exist on disk
  streamServer,  \* module-level streamServer is non-null
  launched,      \* browser.isLaunched()
  shuttingDown,  \* the flag of startDaemon
  timers,        \* pending setTimeout callbacks scheduled by a close command
  spc,           \* position of the running shutdown() invocation
  buffer,        \* per connection: the closure variable buffer
  out,           \* per connection: the responses written to the socket
  nframed,       \* per connection: non-blank lines extracted so far
  handlers,      \* per connection: data handlers suspended at an await
  ndata,         \* data events delivered so far
  nfail,         \* collaborator calls that have failed so far
  tlog,          \* lifecycle calls made so far, in order
  exitCode,      \* -1 while the process runs, else the status of process.exit
  exitCause,     \* the trigger whose handling ended the process
  peer,          \* a daemon of the same session at startup: "live", "none", "unknown"
  feed,          \* FrameSpec: the logical stream of connection 1 and how much was sent
  tracker,       \* TrackerSpec: artifacts of all sessions, pid files, process table
  resolver,      \* ResolverSpec: currentSession and the endpoints resolved so far
  config,        \* ConfigSpec: the streamPort option and AGENT_BROWSER_STREAM_PORT
  recorder,      \* RecorderSpec: a CodegenRecorder and the file system it saves to
  codegen        \* GateSpec: AGENT_BROWSER_CODEGEN and the recorder of the browser

vars == << isWindows, streamPort, dpc, files, streamServer, launched,
           shuttingDown, timers, spc, buffer, out, nframed, handlers,
           ndata, nfail, tlog, exitCode, exitCause, peer, feed, tracker,
           resolver, config, recorder, codegen >>

connVars == << buffer, out, nframed, handlers, ndata >>
ioVars == << out, nframed, ndata >>
envVars == << isWindows, streamPort >>

\* The variables of the daemon proper, and those only other specifications move.
daemonVars == << isWindows, streamPort, dpc, files, streamServer, launched,
                 shuttingDown, timers, spc, buffer, out, nframed, handlers,
                 ndata, nfail, tlog, exitCode, exitCause >>
auxVars == << peer, feed, tracker, resolver, config, recorder, codegen >>

alive == exitCode = -1

\* ------------------------------------------------------------ string helpers
HasNL(s) == \E i \in 1..Len(s) : s[i] = NL

\* buffer.indexOf('\n') (1-based)
IndexOfNL(s) == CHOOSE i \in 1..Len(s) : s[i] = NL /\ \A j \in 1..(i-1) : s[j] # NL

IsBlank(s) == \A i \in 1..Len(s) : s[i] = SP

\* String.prototype.trim
Trim(s) ==
  IF IsBlank(s) THEN <<>>
  ELSE LET a == CHOOSE i \in 1..Len(s) : s[i] # SP /\ \A j \in 1..(i-1) : s[j] = SP
           b == CHOOSE i \in 1..Len(s) : s[i] # SP /\ \A j \in (i+1)..Len(s) : s[j] = SP
       IN  SubSeq(s, a, b)

\* ---------------------------------------------------------------- the codec
\* parseCommand: a line decodes when, whitespace aside, it is one well-formed
\* command; a failure may carry the id the codec salvaged.
parseCommand(line) ==
  LET t == Trim(line) IN
  IF Len(t) = 1 /\ t[1] \in {"n", "l", "c"}
    THEN [success |-> TRUE, action |-> t[1], id |-> "own"]
    ELSE [success |-> FALSE, action |-> "x",
          id |-> IF Len(t) = 1 /\ t[1] = "y" THEN "own" ELSE "null"]

\* A response written to a socket: the request it answers (its index among the
\* connection's framed requests), that request's action, success, the id,
\* whether handling the request called browser.launch at the auto-launch gate,
\* and the error text it carries ("none" unless an error response sets it).
Response(req, act, ok, id, auto) ==
  [req |-> req, act |-> act, ok |-> ok, id |-> id, auto |-> auto, msg |-> "none"]

DecodeErrorResponse_AlwaysUnknown(req, pr) ==
  [Response(req, "x", FALSE, "unknown", FALSE) EXCEPT !.msg = "parseResult.error"]

\* errorResponse(parseResult.id ?? 'unknown', parseResult.error)
DecodeErrorResponse(req, pr) ==
  [Response(req, "x", FALSE, IF pr.id = "null" THEN "unknown" ELSE pr.id, FALSE)
     EXCEPT !.msg = "parseResult.error"]

DecodeWrite_Nothing(o, req, pr) == o

\* socket.write(serializeResponse(resp) + '\n') of the decode-failure branch
DecodeWrite(o, req, pr) == Append(o, DecodeErrorResponse(req, pr))

CatchErrorResponse_RequestId(req, act, auto) ==
  [Response(req, act, FALSE, "own", auto) EXCEPT !.msg = "err.message"]

CatchErrorResponse_NoMessage(req, act, auto) == Response(req, act, FALSE, "error", auto)

\* errorResponse('error', message) of the catch block, message being
\* err.message (or String(err))
CatchErrorResponse(req, act, auto) ==
  [Response(req, act, FALSE, "error", auto) EXCEPT !.msg = "err.message"]

\* ------------------------------------------------------- the shared resource
\* What browser.isLaunched() reports once a call on the resource has settled:
\* initialized after a launch that resolved, uninitialized after a close that
\* resolved, unchanged while a call is in flight or after one that rejected.
\* `call` is "launch", "close" or "other".
isLaunchedAfter(call, ok, cur) ==
  IF ok /\ call = "launch" THEN TRUE
  ELSE IF ok /\ call = "close" THEN FALSE
  ELSE cur

\* The call on the resource that executeCommand makes for a command.
DriverCall(action) ==
  IF action = "l" THEN "launch" ELSE IF action = "c" THEN "close" ELSE "other"

\* ------------------------------------------------------------ the artifacts
getPidFile == "pid"
getStreamPortFile == "stream"
getPortFile == "port"
getSocketPath == "sock"

cleanupSocket_KeepsStream(f) ==
  f \ ({getPidFile} \cup (IF isWindows THEN {getPortFile} ELSE {getSocketPath}))

existsSync_Always(f, file) == TRUE

\* fs.existsSync(file)
existsSync(f, file) == file \in f

\* fs.unlinkSync(file): the file is removed; ENOENT is thrown when it is absent.
unlinkSync(f, file) == [files |-> f \ {file}, threw |-> file \notin f]

\* One statement `if (fs.existsSync(file)) fs.unlinkSync(file);` of the try
\* block of cleanupSocket; a statement that threw ends the block.
GuardedUnlink(st, file) ==
  IF st.threw THEN st
  ELSE IF existsSync(st.files, file) THEN unlinkSync(st.files, file)
  ELSE st

\* cleanupSocket, statement by statement: the pid file, the stream-port file,
\* then the port file (Windows) or the socket path (POSIX); the catch block
\* swallows whatever was thrown, so nothing is raised to the caller.
cleanupSocketTry(f) ==
  LET s1 == GuardedUnlink([files |-> f, threw |-> FALSE], getPidFile)
      s2 == GuardedUnlink(s1, getStreamPortFile)
      s3 == GuardedUnlink(s2, IF isWindows THEN getPortFile ELSE getSocketPath)
  IN  [files |-> s3.files, raised |-> FALSE]

\* cleanupSocket: unlink the pid file, the stream-port file and the port file
\* (Windows) or the socket path (POSIX), each when it exists.
cleanupSocket(f) == cleanupSocketTry(f).files

\* server.close(): the listener stops; a POSIX socket file is unlinked with it.
serverClose(f) == f \ {getSocketPath}

\* ------------------------------------------------------------ lifecycle log
Ev(s, by) == [s |-> s, by |-> by]

Count(log, s) == Cardinality({i \in 1..Len(log) : log[i].s = s})
CountBy(log, s, by) ==
  Cardinality({i \in 1..Len(log) : log[i].s = s /\ log[i].by = by})

\* The 'exit' listener is attached at the end of startDaemon's synchronous part.
ExitHookRegistered == dpc \in {"bindFailed", "listening"}

\* process.exit(code): the 'exit' listener (cleanupSocket) runs, the process
\* ends and its memory (buffers, suspended handlers, timers) is gone.
Exit(code, cause, f, log) ==
  /\ exitCode' = code
  /\ exitCause' = cause
  /\ buffer' = [c \in Conns |-> << >>]
  /\ handlers' = [c \in Conns |-> {}]
  /\ timers' = 0
  /\ files' = IF ExitHookRegistered THEN cleanupSocket(f) ELSE f
  /\ tlog' = log \o << Ev("exit", cause) >>
              \o (IF ExitHookRegistered THEN << Ev("exitHook", cause) >> ELSE << >>)

\* The body shared by the 'uncaughtException' and 'unhandledRejection'
\* listeners: cleanupSocket(); process.exit(1).
ProcessErrorHandler(f, log) ==
  Exit(1, "error", cleanupSocket(f), log \o << Ev("cleanup", "error") >>)

\* ------------------------------------------------------------------- Init
\* Artifacts a previous daemon of the session may have left behind.
StaleFiles ==
  {getPidFile, getStreamPortFile} \cup (IF isWindows THEN {getPortFile} ELSE {getSocketPath})

\* Values of the variables that a specification does not use.
NoFeed == [stream |-> << >>, sent |-> 0]
NoTracker == [disk |-> << >>, pidText |-> << >>, procs |-> "none", call |-> "none"]

NoResolver == "none"
NoConfig == "none"
NoRecorder == "none"

\* AGENT_BROWSER_CODEGEN is not set and the browser has no recorder.
NoCodegen == [env |-> "unset", active |-> FALSE, starts |-> 0]

\* The state of a process that has not called startDaemon yet.
ProcessInit ==
  /\ dpc = "boot"
  /\ streamServer = FALSE
  /\ launched = FALSE
  /\ shuttingDown = FALSE
  /\ timers = 0
  /\ spc = "idle"
  /\ buffer = [c \in Conns |-> << >>]
  /\ out = [c \in Conns |-> << >>]
  /\ nframed = [c \in Conns |-> 0]
  /\ handlers = [c \in Conns |-> {}]
  /\ ndata = 0
  /\ nfail = 0
  /\ tlog = << >>
  /\ exitCode = -1
  /\ exitCause = "none"

\* The process at the call of startDaemon, whatever is on disk.
DaemonInit ==
  /\ isWindows \in BOOLEAN
  /\ streamPort \in {0, DEFAULT_STREAM_PORT}
  /\ ProcessInit

\* The variables that only ResolverSpec, ConfigSpec and RecorderSpec move.
UnitsIdle ==
  /\ resolver = NoResolver
  /\ config = NoConfig
  /\ recorder = NoRecorder
  /\ codegen = NoCodegen

Init ==
  /\ DaemonInit
  /\ files \in {{}, StaleFiles}
  /\ peer = "unknown"
  /\ feed = NoFeed
  /\ tracker = NoTracker
  /\ UnitsIdle

\* ---------------------------------------------------------------- startup
\* The number NaN, which parseInt returns for a text without leading digits:
\* a value apart from every port, for which every comparison is false.
NaN == -999999
IsNaN(v) == v = NaN

StreamEnabled_NonZero == streamPort # 0

\* if (streamPort > 0): false for 0, for a negative number and for NaN
StreamEnabled == ~IsNaN(streamPort) /\ streamPort > 0

\* startDaemon from createServer to process.stdin.resume(): the pid file is
\* written, then (Windows) the port file, then listen() binds; the handlers
\* of the process are attached.  A failed bind is reported by the 'error'
\* event on the next tick.
BindSteps_ListenFirst ==
  << Ev("createServer", "start"), Ev("listen", "start"), Ev("writePid", "start") >>
    \o (IF isWindows THEN << Ev("writePort", "start") >> ELSE << >>)

\* net.createServer(...), fs.writeFileSync(pidFile, ...), then on Windows
\* fs.writeFileSync(portFile, ...), then server.listen(...)
BindSteps ==
  << Ev("createServer", "start"), Ev("writePid", "start") >>
    \o (IF isWindows THEN << Ev("writePort", "start") >> ELSE << >>)
    \o << Ev("listen", "start") >>

\* The outcomes listen() can have.  With nothing known about the endpoint it
\* binds or fails.  A POSIX bind fails with EADDRINUSE exactly when the socket
\* path exists; a TCP bind fails exactly when a live process holds the port.
BindOutcomes(f) ==
  IF peer = "unknown" THEN BOOLEAN
  ELSE IF isWindows THEN {peer # "live"}
  ELSE {getSocketPath \notin f}

StartRest(f, log) ==
  \E bindOk \in BindOutcomes(f) :
    /\ files' = (f \cup {getPidFile})
                  \cup (IF isWindows THEN {getPortFile} ELSE {})
                  \cup (IF ~isWindows /\ bindOk THEN {getSocketPath} ELSE {})
    /\ tlog' = log \o BindSteps
    /\ dpc' = IF bindOk THEN "listening" ELSE "bindFailed"

\* startDaemon up to its first await (or, with no stream server, to its end).
StartDaemon ==
  /\ UNCHANGED nfail
  /\ alive /\ dpc = "boot"
  /\ LET f1 == cleanupSocket(files)
         log1 == tlog \o << Ev("cleanup", "start") >>
     IN IF StreamEnabled
          THEN /\ streamServer' = TRUE
               /\ dpc' = "streamStarting"
               /\ files' = f1
               /\ tlog' = log1 \o << Ev("streamStart", "start") >>
          ELSE /\ StartRest(f1, log1)
               /\ UNCHANGED streamServer
  /\ UNCHANGED << envVars, launched, shuttingDown, timers, spc, connVars,
                  exitCode, exitCause >>

\* await streamServer.start() resolved: the stream-port file is written and
\* startDaemon runs to its end.
StreamStarted ==
  /\ UNCHANGED nfail
  /\ alive /\ dpc = "streamStarting"
  /\ StartRest(files \cup {getStreamPortFile},
               tlog \o << Ev("writeStream", "start") >>)
  /\ UNCHANGED << envVars, streamServer, launched, shuttingDown, timers, spc,
                  connVars, exitCode, exitCause >>

\* await streamServer.start() rejected: startDaemon().catch at the entry point.
StreamStartFailed ==
  /\ UNCHANGED nfail
  /\ alive /\ dpc = "streamStarting"
  /\ Exit(1, "startDaemon", cleanupSocket(files),
          tlog \o << Ev("cleanup", "startDaemon") >>)
  /\ UNCHANGED << envVars, dpc, streamServer, launched, shuttingDown, spc, ioVars >>

\* server.on('error')
ServerError ==
  /\ UNCHANGED nfail
  /\ alive /\ dpc = "bindFailed"
  /\ Exit(1, "serverError", cleanupSocket(files),
          tlog \o << Ev("cleanup", "serverError") >>)
  /\ UNCHANGED << envVars, dpc, streamServer, launched, shuttingDown, spc, ioVars >>

\* ------------------------------------------------- the per-connection handler
\* The while loop of the data handler, run from the current buffer up to the
\* first line that decodes (cmd is its action) or until no complete line is
\* left (cmd = "none").  Blank lines are skipped; a line that fails to decode
\* is answered at once.  k counts the non-blank lines extracted so far.
IsSkipped_EmptyOnly(line) == line = << >>

\* if (!line.trim()) continue;
IsSkipped(line) == Trim(line) = << >>

AfterLine_SkipsByte(buf, newlineIdx) == SubSeq(buf, newlineIdx + 2, Len(buf))

\* buffer = buffer.substring(newlineIdx + 1)
AfterLine(buf, newlineIdx) == SubSeq(buf, newlineIdx + 1, Len(buf))

RECURSIVE Frame(_, _, _)
Frame(buf, o, k) ==
  IF ~HasNL(buf)
    THEN [buffer |-> buf, out |-> o, nframed |-> k, cmd |-> "none"]
    ELSE LET newlineIdx == IndexOfNL(buf)
             line == SubSeq(buf, 1, newlineIdx - 1)
             rest == AfterLine(buf, newlineIdx)
         IN IF IsSkipped(line)
              THEN Frame(rest, o, k)
              ELSE LET parseResult == parseCommand(line) IN
                   IF ~parseResult.success
                     THEN Frame(rest, DecodeWrite(o, k + 1, parseResult), k + 1)
                     ELSE [buffer |-> rest, out |-> o, nframed |-> k + 1,
                           cmd |-> parseResult.action]

NeedsAutoLaunch_IgnoresClose(isLaunched, action) ==
  ~isLaunched /\ action # "l"

\* The condition of the auto-launch gate.
NeedsAutoLaunch(isLaunched, action) ==
  ~isLaunched /\ action # "l" /\ action # "c"

\* The await a decoded command suspends at first.
FirstAwait(isLaunched, action) ==
  IF NeedsAutoLaunch(isLaunched, action) THEN "launch"
  ELSE IF action = "c" THEN "close"
  ELSE "exec"

\* A handler of connection c runs its loop from buffer `buf` until it suspends
\* or returns.  `hs` are the other suspended handlers of c, `isLaunched` is
\* what browser.isLaunched() reports now.
RunLoop(c, buf, o, hs, isLaunched) ==
  LET r == Frame(buf, o, nframed[c])
      pc == FirstAwait(isLaunched, r.cmd)
      h == [req |-> r.nframed, act |-> r.cmd, pc |-> pc,
            seen |-> isLaunched, gate |-> "none"]
  IN /\ buffer' = [buffer EXCEPT ![c] = r.buffer]
     /\ out' = [out EXCEPT ![c] = r.out]
     /\ nframed' = [nframed EXCEPT ![c] = r.nframed]
     /\ handlers' = [handlers EXCEPT ![c] = IF r.cmd = "none" THEN hs ELSE hs \cup {h}]

Serving == alive /\ dpc = "listening"

\* The outcome of an awaited collaborator call: it resolves (ok) or rejects.
Outcome(ok) ==
  /\ ok \/ nfail < MaxFail
  /\ nfail' = IF ok THEN nfail ELSE nfail + 1

\* Connections are numbered in the order of their first data event.
Known(c) == \A d \in Conns : d < c => (nframed[d] > 0 \/ buffer[d] # << >>)

Accumulate_Overwrite(buf, chunk) == chunk

\* buffer += data.toString()
Accumulate(buf, chunk) == buf \o chunk

\* socket.on('data'): a chunk arrives on connection c.
Data(c, chunk) ==
  /\ UNCHANGED nfail
  /\ Serving /\ ndata < MaxData /\ Known(c)
  /\ ndata' = ndata + 1
  /\ RunLoop(c, Accumulate(buffer[c], chunk), out[c], handlers[c], launched)
  /\ UNCHANGED << envVars, tlog, dpc, files, streamServer, launched, shuttingDown,
                  timers, spc, exitCode, exitCause >>

\* await browser.launch(...) of the gate settles.  Resolved: the resource is
\* initialized and the command goes to the driver.  Rejected: the catch
\* block answers and the loop goes on.
LaunchDone(c, h, ok) ==
  /\ Outcome(ok)
  /\ Serving /\ h \in handlers[c] /\ h.pc = "launch"
  /\ IF ok
       THEN /\ launched' = isLaunchedAfter("launch", ok, launched)
            /\ handlers' = [handlers EXCEPT
                  ![c] = (@ \ {h}) \cup {[h EXCEPT !.pc = "exec", !.gate = "auto"]}]
            /\ UNCHANGED << buffer, out, nframed >>
       ELSE /\ RunLoop(c, buffer[c], Append(out[c], CatchErrorResponse(h.req, h.act, TRUE)),
                       handlers[c] \ {h}, launched)
            /\ UNCHANGED launched
  /\ UNCHANGED << envVars, dpc, files, streamServer, shuttingDown, timers, spc,
                  ndata, tlog, exitCode, exitCause >>

\* await executeCommand(command, browser) of a command other than close settles.
ExecDone(c, h, ok) ==
  /\ Outcome(ok)
  /\ Serving /\ h \in handlers[c] /\ h.pc = "exec"
  /\ LET isL == isLaunchedAfter(DriverCall(h.act), ok, launched)
         resp == IF ok THEN Response(h.req, h.act, TRUE, "own", h.gate = "auto")
                       ELSE CatchErrorResponse(h.req, h.act, h.gate = "auto")
     IN /\ launched' = isL
        /\ RunLoop(c, buffer[c], Append(out[c], resp), handlers[c] \ {h}, isL)
  /\ UNCHANGED << envVars, dpc, files, streamServer, shuttingDown, timers, spc,
                  ndata, tlog, exitCode, exitCause >>

CloseWrite_Nothing(o, h) == o

\* socket.write(serializeResponse(response) + '\n') of the close branch
CloseWrite(o, h) == Append(o, Response(h.req, h.act, TRUE, "own", FALSE))

CloseSchedules_Always(sd) == TRUE

SetTimeout_Dropped(t) == t

\* setTimeout(() => {...}, 100) of the close branch: one more pending timer
SetTimeout(t) == t + 1

\* if (!shuttingDown) of the close branch
CloseSchedules(sd) == ~sd

\* await executeCommand(command, browser) of a close command settles.
\* Resolved: the response is written, the exit timer is set once, the handler
\* returns.  Rejected: the catch block answers and the loop goes on.
CloseInitiates_Always(ok) == TRUE

\* The guarded block of the close branch (222-230) follows the await of
\* executeCommand and the write: it is reached only when the call resolved.
CloseInitiates(ok) == ok

CloseDone(c, h, ok) ==
  /\ Outcome(ok)
  /\ Serving /\ h \in handlers[c] /\ h.pc = "close"
  /\ IF ok
       THEN /\ launched' = isLaunchedAfter(DriverCall(h.act), ok, launched)
            /\ out' = [out EXCEPT ![c] = CloseWrite(@, h)]
            /\ handlers' = [handlers EXCEPT ![c] = @ \ {h}]
            /\ UNCHANGED << buffer, nframed >>
       ELSE /\ RunLoop(c, buffer[c], Append(out[c], CatchErrorResponse(h.req, h.act, FALSE)),
                       handlers[c] \ {h}, launched)
            /\ UNCHANGED launched
  /\ IF CloseInitiates(ok) /\ CloseSchedules(shuttingDown)
       THEN /\ shuttingDown' = TRUE
            /\ timers' = SetTimeout(timers)
       ELSE UNCHANGED << shuttingDown, timers >>
  /\ UNCHANGED << envVars, dpc, files, streamServer, spc, ndata, tlog, exitCode,
                  exitCause >>

\* ---------------------------------------------------------------- teardown
\* The setTimeout callback of the close branch.
TimerFire ==
  /\ UNCHANGED nfail
  /\ Serving /\ timers > 0
  /\ Exit(0, "close", cleanupSocket(serverClose(files)),
          tlog \o << Ev("serverClose", "close"), Ev("cleanup", "close") >>)
  /\ UNCHANGED << envVars, dpc, streamServer, launched, shuttingDown, spc, ioVars >>

ShutdownReturns_Never(sd) == FALSE

\* if (shuttingDown) return; of shutdown
ShutdownReturns(sd) == sd

\* SIGINT, SIGTERM or SIGHUP: shutdown() runs up to its first await.  When it
\* returns at once (the flag is set) nothing changes: a stuttering step.
Signal ==
  /\ UNCHANGED nfail
  /\ Serving
  /\ ~ShutdownReturns(shuttingDown)
  /\ shuttingDown' = TRUE
  /\ spc' = IF streamServer THEN "stopStream" ELSE "closeBrowser"
  /\ tlog' = tlog \o << IF streamServer THEN Ev("streamStop", "signal")
                                        ELSE Ev("browserClose", "signal") >>
  /\ UNCHANGED << envVars, dpc, files, streamServer, launched, timers, connVars,
                  exitCode, exitCause >>

\* await streamServer.stop() resolved: the handle is dropped, the stream-port
\* file removed, browser.close() called.
ShutdownStreamStopped ==
  /\ Outcome(TRUE)
  /\ Serving /\ spc = "stopStream"
  /\ streamServer' = FALSE
  /\ files' = files \ {getStreamPortFile}
  /\ spc' = "closeBrowser"
  /\ tlog' = tlog \o << Ev("unlinkStream", "signal"), Ev("browserClose", "signal") >>
  /\ UNCHANGED << envVars, dpc, launched, shuttingDown, timers, connVars,
                  exitCode, exitCause >>

\* await browser.close() of shutdown resolved: the rest of shutdown runs.
ShutdownBrowserClosed ==
  /\ Outcome(TRUE)
  /\ Serving /\ spc = "closeBrowser"
  /\ launched' = isLaunchedAfter("close", TRUE, launched)
  /\ spc' = "done"
  /\ Exit(0, "signal", cleanupSocket(serverClose(files)),
          tlog \o << Ev("serverClose", "signal"), Ev("cleanup", "signal") >>)
  /\ UNCHANGED << envVars, dpc, streamServer, shuttingDown, ioVars >>

\* process.on('uncaughtException'): an exception escaped every handler.
UncaughtException ==
  /\ UNCHANGED nfail
  /\ Serving
  /\ ProcessErrorHandler(files, tlog)
  /\ UNCHANGED << envVars, dpc, streamServer, launched, shuttingDown, spc, ioVars >>

\* process.on('unhandledRejection'): await streamServer.stop() or await
\* browser.close() of shutdown() rejected; shutdown is not wrapped in a
\* try/catch and the signal listener drops its promise, so the rejection is
\* unhandled.
UnhandledRejection ==
  /\ Outcome(FALSE)
  /\ Serving /\ spc \in {"stopStream", "closeBrowser"}
  /\ spc' = "rejected"
  /\ ProcessErrorHandler(files, tlog)
  /\ UNCHANGED << envVars, dpc, streamServer, launched, shuttingDown, ioVars >>

\* ------------------------------------------------------------ specification
\* The actions of the daemon; they leave the auxiliary variables alone.
Aux == UNCHANGED auxVars

Awaiting_Serialized(c) ==
  IF \E d \in Conns : d < c /\ handlers[d] # {} THEN {} ELSE handlers[c]

\* The suspended handlers of c whose awaited call may settle now.  Each await
\* (200, 220, 234) suspends its own invocation only: the call of any handler
\* of any connection may settle next.
Awaiting(c) == handlers[c]

Next ==
  \/ StartDaemon /\ Aux
  \/ StreamStarted /\ Aux
  \/ StreamStartFailed /\ Aux
  \/ ServerError /\ Aux
  \/ \E c \in Conns, chunk \in Chunks : Data(c, chunk) /\ Aux
  \/ \E c \in Conns : \E h \in Awaiting(c), ok \in BOOLEAN : LaunchDone(c, h, ok) /\ Aux
  \/ \E c \in Conns : \E h \in Awaiting(c), ok \in BOOLEAN : ExecDone(c, h, ok) /\ Aux
  \/ \E c \in Conns : \E h \in Awaiting(c), ok \in BOOLEAN : CloseDone(c, h, ok) /\ Aux
  \/ TimerFire /\ Aux
  \/ Signal /\ Aux
  \/ ShutdownStreamStopped /\ Aux
  \/ ShutdownBrowserClosed /\ Aux
  \/ UncaughtException /\ Aux
  \/ UnhandledRejection /\ Aux

Spec == Init /\ [][Next]_vars

\* A pending timer fires (100 ms), and an awaited stop or close of shutdown()
\* settles: it resolves, unless it rejects first.
LiveSpec ==
  /\ Spec
  /\ WF_vars(TimerFire /\ Aux)
  /\ WF_vars(ShutdownStreamStopped /\ Aux)
  /\ WF_vars(ShutdownBrowserClosed /\ Aux)

\* The calls awaited by the handlers of connection c settle, whatever becomes
\* of the calls awaited on other connections.
Settle(c) ==
  \E h \in Awaiting(c), ok \in BOOLEAN :
    (LaunchDone(c, h, ok) \/ ExecDone(c, h, ok) \/ CloseDone(c, h, ok)) /\ Aux

\* The daemon with a second connection whose driver calls settle, while those
\* of the first connection may never do.
IsolationSpec == Spec /\ WF_vars(Settle(2))

\* --------------------------------------------- startup beside a live daemon
\* The artifacts a live daemon of the session keeps on disk (its stream-port
\* file aside): the pid file and the port file or the bound socket path.
LiveFiles == {getPidFile} \cup (IF isWindows THEN {getPortFile} ELSE {getSocketPath})

\* startDaemon is entered while a daemon of the same session is alive and
\* listening on the session's endpoint, or while none is.
PeerInit ==
  /\ DaemonInit
  /\ peer \in {"none", "live"}
  /\ files \in (IF peer = "live" THEN {LiveFiles, LiveFiles \cup {getStreamPortFile}}
                                ELSE {{}, StaleFiles})
  /\ feed = NoFeed
  /\ tracker = NoTracker
  /\ UnitsIdle

PeerSpec == PeerInit /\ [][Next]_vars

\* ------------------------------------------------ one stream, any chunking
\* The characters a client stream is made of.
FrameAlphabet == {"n", "c", "x", "y", SP, NL}

Streams == UNION { [1..k -> FrameAlphabet] : k \in 0..MaxLen }

\* A listening POSIX daemon without stream server, as StartDaemon leaves it,
\* and the stream a client is about to send on connection 1.
FrameInit ==
  /\ DaemonInit
  /\ isWindows = FALSE
  /\ streamPort = 0
  /\ files = LiveFiles
  /\ peer = "unknown"
  /\ tracker = NoTracker
  /\ UnitsIdle
  /\ \E st \in Streams : feed = [stream |-> st, sent |-> 0]

\* The freshly started daemon of FrameInit reaches the listening state.
FrameStart ==
  /\ StartDaemon
  /\ dpc' = "listening"
  /\ UNCHANGED auxVars

\* The next k characters of the stream arrive in one data event.
Feed(k) ==
  /\ Data(1, SubSeq(feed.stream, feed.sent + 1, feed.sent + k))
  /\ feed' = [feed EXCEPT !.sent = @ + k]
  /\ UNCHANGED << peer, tracker, resolver, config, recorder, codegen >>

FrameNext ==
  \/ FrameStart
  \/ \E k \in 1..(Len(feed.stream) - feed.sent) : Feed(k)
  \/ \E h \in handlers[1], ok \in BOOLEAN : LaunchDone(1, h, ok) /\ Aux
  \/ \E h \in handlers[1], ok \in BOOLEAN : ExecDone(1, h, ok) /\ Aux
  \/ \E h \in handlers[1], ok \in BOOLEAN : CloseDone(1, h, ok) /\ Aux

FrameSpec == FrameInit /\ [][FrameNext]_vars

\* ------------------------------------------------- the liveness tracker
\* isDaemonRunning(session) and cleanupSocket(session), called by a client
\* or a launcher for any session.
Sessions == {"default", "t1"}

\* The artifacts of a session on this platform.
SessionArtifacts ==
  {getPidFile, getStreamPortFile} \cup (IF isWindows THEN {getPortFile} ELSE {getSocketPath})

\* What a pid file may hold: a pid, a pid with trailing whitespace, a pid
\* with garbage behind it, garbage, nothing.
PidTexts == { <<"7">>, <<"7", SP>>, <<"7", "x">>, <<"x">>, << >> }

IsDigit(ch) == ch = "7"

\* parseInt(text, 10): the longest prefix of digits, NaN when there is none.
parseInt(text) ==
  IF text = << >> \/ ~IsDigit(text[1]) THEN "NaN"
  ELSE LET n == CHOOSE k \in 1..Len(text) :
                  /\ \A i \in 1..k : IsDigit(text[i])
                  /\ (k = Len(text) \/ ~IsDigit(text[k + 1]))
       IN  SubSeq(text, 1, n)

\* fs.readFileSync(pidFile, 'utf8'): the text, or ENOENT thrown.
readFileSync(f, text) == IF getPidFile \in f THEN text ELSE "ENOENT"

KillThrows_OnlyWhenGone(pid, procs) == pid = "NaN" \/ procs = "gone"

\* process.kill(pid, 0) throws: for NaN (not a valid pid), for a process that
\* does not exist (ESRCH) and for one the caller may not signal (EPERM).
KillThrows(pid, procs) == pid = "NaN" \/ procs # "running"

PidFileMissing_Never(f) == FALSE

\* if (!fs.existsSync(pidFile)) return false;
PidFileMissing(f) == ~existsSync(f, getPidFile)

\* isDaemonRunning on the artifacts f of the session, text being what the pid
\* file holds and procs the state of the process it names.
isDaemonRunning(f, text, procs) ==
  IF PidFileMissing(f) THEN [ret |-> FALSE, files |-> f]
  ELSE LET content == readFileSync(f, text) IN
       IF content = "ENOENT" \/ KillThrows(parseInt(Trim(content)), procs)
         THEN [ret |-> FALSE, files |-> cleanupSocket(f)]
         ELSE [ret |-> TRUE, files |-> f]

TrackerInit ==
  /\ DaemonInit
  /\ streamPort = 0
  /\ files = {}
  /\ peer = "unknown"
  /\ feed = NoFeed
  /\ UnitsIdle
  /\ \E d \in [Sessions -> SUBSET SessionArtifacts], t \in [Sessions -> PidTexts],
        p \in {"running", "gone", "denied"} :
       /\ \A s \in Sessions : getPidFile \notin d[s] => t[s] = << >>
       /\ tracker = [disk |-> d, pidText |-> t, procs |-> p,
                     call |-> [op |-> "none", sess |-> "default", before |-> d,
                               ret |-> FALSE, raised |-> FALSE, prev |-> "none"]]

\* A call of isDaemonRunning(s).
IsDaemonRunningCall(s) ==
  LET r == isDaemonRunning(tracker.disk[s], tracker.pidText[s], tracker.procs)
  IN  tracker' = [tracker EXCEPT
                    !.disk[s] = r.files,
                    !.call = [op |-> "isDaemonRunning", sess |-> s, before |-> tracker.disk,
                              ret |-> r.ret, raised |-> FALSE, prev |-> tracker.call.op]]

\* A call of cleanupSocket(s).
CleanupSocketCall(s) ==
  LET r == cleanupSocketTry(tracker.disk[s])
  IN  tracker' = [tracker EXCEPT
                    !.disk[s] = r.files,
                    !.call = [op |-> "cleanupSocket", sess |-> s, before |-> tracker.disk,
                              ret |-> FALSE, raised |-> r.raised,
                              prev |-> IF tracker.call.sess = s THEN tracker.call.op
                                                                ELSE "other"]]

TrackerNext ==
  \/ \E s \in Sessions : IsDaemonRunningCall(s) /\ UNCHANGED << daemonVars, peer, feed, resolver, config, recorder, codegen >>
  \/ \E s \in Sessions : CleanupSocketCall(s) /\ UNCHANGED << daemonVars, peer, feed, resolver, config, recorder, codegen >>

TrackerSpec == TrackerInit /\ [][TrackerNext]_vars

\* ------------------------------------------------------- derived quantities
Idx(c) == 1..Len(out[c])

\* browser.launch calls made at the auto-launch gate by handlers of c.
AutoLaunchCalls(c) ==
  Cardinality({h \in handlers[c] : h.pc = "launch" \/ h.gate = "auto"})
    + Cardinality({i \in Idx(c) : out[c][i].auto})

\* Close commands of c handed to the driver (each runs browser.close).
DriverCloseCalls(c) ==
  Cardinality({h \in handlers[c] : h.pc = "close"})
    + Cardinality({i \in Idx(c) : out[c][i].act = "c"})

RECURSIVE TotalDriverCloseCalls(_)
TotalDriverCloseCalls(S) ==
  IF S = {} THEN 0
  ELSE LET c == CHOOSE x \in S : TRUE
       IN  DriverCloseCalls(c) + TotalDriverCloseCalls(S \ {c})

\* browser.close calls made by shutdown().
SignalCloseCalls == CountBy(tlog, "browserClose", "signal")

CloseDispatched == \E c \in Conns : DriverCloseCalls(c) > 0

CloseAnswered == \E c \in Conns : \E i \in Idx(c) : out[c][i].act = "c" /\ out[c][i].ok

\* The steps of a teardown body (those of startup and of the 'exit' listener
\* are not among them).
IsTeardownStep(e) ==
  /\ e.s \in {"streamStop", "unlinkStream", "browserClose", "serverClose", "cleanup", "exit"}
  /\ e.by \in {"close", "signal", "error"}

TeardownActors == {tlog[i].by : i \in {j \in 1..Len(tlog) : IsTeardownStep(tlog[j])}}

\* ------------------------------------------------------------------ claims

\* C1: on one connection the handling of a request does not begin before the
\* response to the previous request has been written, and responses are
\* written in request order.
C1_InOrder ==
  \A c \in Conns :
    /\ \A h \in handlers[c] : h.req = Len(out[c]) + 1
    /\ \A i \in Idx(c) : out[c][i].req = i

\* C2: two non-lifecycle commands on two different connections, both arriving
\* while the resource is uninitialized (no close command, no failed call
\* involved), do not both invoke browser.launch.
C2_SingleLaunch ==
  (nfail = 0 /\ ~CloseDispatched) =>
    ~ \E c1, c2 \in Conns :
        c1 # c2 /\ AutoLaunchCalls(c1) > 0 /\ AutoLaunchCalls(c2) > 0

\* C3 as stated: whatever triggers arrive, the teardown steps are all performed
\* by one trigger's body; a trigger arriving during a teardown adds none.
C3_OneBody == nfail = 0 => Cardinality(TeardownActors) <= 1

\* C3 as amended: the flag guards the close command and the signals: at most
\* one exit timer is ever pending, the timer body and shutdown() never both
\* run, and the listener is stopped, the artifacts cleared by a teardown body
\* and the process ended at most once each.
C3_FlagGuard ==
  /\ timers <= 1
  /\ ~(timers > 0 /\ spc # "idle")
  /\ (timers > 0 \/ spc # "idle") => shuttingDown
  /\ ~({"close", "signal"} \subseteq TeardownActors)
  /\ Count(tlog, "serverClose") <= 1
  /\ Cardinality({i \in 1..Len(tlog) : tlog[i].s = "cleanup" /\ IsTeardownStep(tlog[i])}) <= 1
  /\ Count(tlog, "exit") <= 1

\* A second close command was answered while the timer of the first is pending.
C3_Witness ==
  /\ timers = 1
  /\ \E c1, c2 \in Conns : \E i \in Idx(c1), j \in Idx(c2) :
       /\ << c1, i >> # << c2, j >>
       /\ out[c1][i].act = "c" /\ out[c1][i].ok
       /\ out[c2][j].act = "c" /\ out[c2][j].ok

\* C4 as stated: once no handler of a connection is suspended, every complete
\* non-blank line received on it has been extracted and answered.
C4_EveryLineAnswered ==
  alive => \A c \in Conns :
    handlers[c] = {} => (~HasNL(buffer[c]) /\ Len(out[c]) = nframed[c])

\* C4 as amended: no request is answered twice; every extracted request is
\* either answered or held by exactly one suspended handler; and complete
\* lines are left in the buffer with no handler running only behind a close
\* command that was executed and answered.
C4_AtMostOnce ==
  \A c \in Conns :
    /\ \A i, j \in Idx(c) : i # j => out[c][i].req # out[c][j].req
    /\ \A h1, h2 \in handlers[c] : h1 # h2 => h1.req # h2.req
    /\ \A i \in Idx(c) : \A h \in handlers[c] : out[c][i].req # h.req
    /\ alive => ({out[c][i].req : i \in Idx(c)} \cup {h.req : h \in handlers[c]}
                   = 1..nframed[c])
    /\ (alive /\ handlers[c] = {} /\ HasNL(buffer[c])) =>
         /\ Len(out[c]) > 0
         /\ out[c][Len(out[c])].act = "c"
         /\ out[c][Len(out[c])].ok

\* A line is left behind an answered close command, with no handler running.
C4_Witness ==
  \E c \in Conns : alive /\ handlers[c] = {} /\ HasNL(buffer[c])

\* C5 as stated: no teardown step takes place while a close command is still
\* waiting for its response.
C5_AnsweredBeforeTeardown ==
  (\E c \in Conns : \E h \in handlers[c] : h.act = "c") => TeardownActors = {}

\* C5 as amended: the exit timer, and the teardown it performs, exist only
\* after a close command has been answered; no close command is answered twice.
C5_TimerAfterResponse ==
  /\ (timers > 0 \/ exitCause = "close" \/ "close" \in TeardownActors) => CloseAnswered
  /\ \A c \in Conns : \A i, j \in Idx(c) :
       (i # j /\ out[c][i].act = "c") => out[c][i].req # out[c][j].req

\* The close command has been answered and its timer is pending.
C5_Witness == timers > 0 /\ CloseAnswered /\ alive

\* C6 as stated: browser.close is invoked at most once in the life of the process.
C6_ClosedOnce ==
  SignalCloseCalls + TotalDriverCloseCalls(Conns) <= 1

\* C6 as amended: shutdown() invokes browser.close at most once, and not at all
\* once a close command has set the exit timer.
C6_ShutdownClosesOnce ==
  /\ SignalCloseCalls <= 1
  /\ (timers > 0 \/ exitCause = "close") => SignalCloseCalls = 0

\* A close command reached the driver and shutdown() has called browser.close.
C6_Witness == SignalCloseCalls = 1 /\ CloseDispatched

\* C7: the gate calls browser.launch only for a command other than launch and
\* close that found the resource uninitialized; such a command reaches the
\* driver only after that launch resolved; launch and close commands, and
\* commands that found the resource initialized, never pass through the gate.
C7_Gate ==
  \A c \in Conns :
    /\ \A h \in handlers[c] :
         /\ h.pc = "launch" => (h.act = "n" /\ ~h.seen)
         /\ h.gate = "auto" => (h.act = "n" /\ ~h.seen /\ h.pc = "exec")
         /\ (h.pc = "exec" /\ h.act = "n") => (h.seen \/ h.gate = "auto")
         /\ h.act \in {"l", "c"} => (h.pc # "launch" /\ h.gate = "none")
         /\ h.seen => (h.pc # "launch" /\ h.gate = "none")
    /\ \A i \in Idx(c) : out[c][i].auto => out[c][i].act = "n"

\* A command went through the gate and is now with the driver.
C7_Witness ==
  \E c \in Conns : \E h \in handlers[c] : h.pc = "exec" /\ h.gate = "auto" /\ launched

\* C8: a process that ends on a graceful trigger (close command or signal)
\* has stopped its secondary server first.
C8_StreamStoppedFirst ==
  exitCause \in {"close", "signal"} => ~streamServer

\* C9: the exit status is 0 exactly when the trigger was graceful (a close
\* command or a signal) and 1 otherwise.  A rejection of shutdown()'s own
\* promise belongs to the signal that started shutdown().
GracefulTrigger ==
  \/ exitCause \in {"close", "signal"}
  \/ exitCause = "error" /\ spc = "rejected"

C9_ExitStatus ==
  ~alive => /\ exitCode \in {0, 1}
            /\ exitCode = 0 <=> GracefulTrigger

\* C10: once the process has exited, by whichever path, no artifact of the
\* session is left on disk.
C10_NoArtifacts == ~alive => files = {}

\* The process ended on an error with the stream-port file still published.
C10_Witness == ~alive /\ exitCause = "error" /\ streamServer /\ spc = "idle"

\* C11: once a shutdown has been initiated (a close command was executed and
\* answered and set the flag, or a signal started shutdown()), the process
\* eventually exits, whatever commands, close commands and signals follow.
C11_ShutdownExits == shuttingDown ~> ~alive

\* The process has exited through the timer of a close command although a
\* second close command was answered while the timer was pending.
C11_Witness ==
  /\ ~alive /\ exitCause = "close" /\ shuttingDown
  /\ \E c1, c2 \in Conns : \E i \in Idx(c1), j \in Idx(c2) :
       /\ << c1, i >> # << c2, j >>
       /\ out[c1][i].act = "c" /\ out[c1][i].ok
       /\ out[c2][j].act = "c" /\ out[c2][j].ok

\* C12: a daemon started while a live daemon of the same session holds the
\* endpoint never ends up listening on it, and exits with a nonzero status.
C12_ConflictIsFatal ==
  peer = "live" => /\ dpc # "listening"
                   /\ ~alive => exitCode # 0

\* Position of the first startup step s in the lifecycle log, 0 when absent.
StartPos(s) ==
  IF \E i \in 1..Len(tlog) : tlog[i] = Ev(s, "start")
    THEN CHOOSE i \in 1..Len(tlog) :
           tlog[i] = Ev(s, "start") /\ \A j \in 1..(i-1) : tlog[j] # Ev(s, "start")
    ELSE 0

\* a happened, and before it b
StartBefore(b, a) == StartPos(a) > 0 => (StartPos(b) > 0 /\ StartPos(b) < StartPos(a))

\* C13 as stated: stale artifacts are cleared, then the stream server is
\* started and its file written, then the listener is bound, then the lock
\* marker is written, then connections are served; the marker is never
\* written before the bind.
C13_StartupOrder ==
  /\ StartBefore("cleanup", "streamStart")
  /\ StartBefore("streamStart", "writeStream")
  /\ StartBefore("writeStream", "listen") \/ ~StreamEnabled
  /\ StartBefore("cleanup", "listen")
  /\ StartBefore("listen", "writePid")
  /\ ndata > 0 => StartPos("writePid") > 0

\* C13 as amended: the order is clear, stream server, stream-port file, lock
\* marker, port file (Windows), listen, serve: the marker is always written
\* before listen is called, and it is written whether or not the bind succeeds.
C13_MarkerThenListen ==
  /\ StartBefore("cleanup", "streamStart")
  /\ StartBefore("streamStart", "writeStream")
  /\ StartPos("streamStart") > 0 <=> (StreamEnabled /\ dpc # "boot")
  /\ StartBefore("cleanup", "writePid")
  /\ StreamEnabled => StartBefore("writeStream", "writePid")
  /\ StartBefore("writePid", "listen")
  /\ StartPos("writePort") > 0 <=> (isWindows /\ StartPos("writePid") > 0)
  /\ StartBefore("writePid", "writePort")
  /\ StartBefore("writePort", "listen") \/ ~isWindows
  /\ StartPos("listen") > 0 <=> StartPos("writePid") > 0
  /\ dpc = "bindFailed" => StartPos("writePid") > 0
  /\ ndata > 0 => StartPos("listen") > 0

\* A Windows daemon with a stream server went through every startup step and
\* has served a data event.
C13_Witness ==
  isWindows /\ StreamEnabled /\ StartPos("listen") > 0 /\ ndata > 0

\* The last tracker call, the artifacts of its session before and after it.
LastCall == tracker.call
CallBefore == LastCall.before[LastCall.sess]
CallAfter == tracker.disk[LastCall.sess]

\* The pid file of the call's session held a pid and the process is running.
ProbeSucceeded ==
  /\ tracker.pidText[LastCall.sess] # << >>
  /\ tracker.pidText[LastCall.sess][1] = "7"
  /\ tracker.procs = "running"

\* C14: isDaemonRunning returns false when the pid marker is absent; with the
\* marker present it returns true exactly when the probe of the recorded pid
\* succeeds, and on a probe failure (process gone, no permission, no pid to
\* parse) it returns false and removes every artifact of the session.
C14_IsDaemonRunning ==
  LastCall.op = "isDaemonRunning" =>
    /\ getPidFile \notin CallBefore => ~LastCall.ret
    /\ getPidFile \in CallBefore => (LastCall.ret <=> ProbeSucceeded)
    /\ (getPidFile \in CallBefore /\ ~LastCall.ret) => CallAfter \cap SessionArtifacts = {}

\* A probe that failed for lack of permission cleared a full set of artifacts.
C14_Witness ==
  /\ LastCall.op = "isDaemonRunning" /\ ~LastCall.ret
  /\ CallBefore = SessionArtifacts /\ tracker.procs = "denied"
  /\ tracker.pidText[LastCall.sess] = <<"7">>

\* C15: a call of isDaemonRunning that returns true, or returns false because
\* no marker exists, leaves every artifact of every session as it was.
C15_NoMutation ==
  (LastCall.op = "isDaemonRunning" /\ (LastCall.ret \/ getPidFile \notin CallBefore))
    => tracker.disk = LastCall.before

\* A call found no marker but other artifacts of the session on disk.
C15_Witness ==
  /\ LastCall.op = "isDaemonRunning" /\ getPidFile \notin CallBefore
  /\ CallBefore # {}

\* C16: after cleanupSocket no artifact of the session exists, whichever
\* subset existed before, nothing is raised to the caller, the artifacts of
\* other sessions are untouched, and a second call right after the first
\* changes nothing and raises nothing.
C16_CleanupIdempotent ==
  LastCall.op = "cleanupSocket" =>
    /\ CallAfter \cap SessionArtifacts = {}
    /\ ~LastCall.raised
    /\ \A s \in Sessions \ {LastCall.sess} : tracker.disk[s] = LastCall.before[s]
    /\ LastCall.prev = "cleanupSocket" => tracker.disk = LastCall.before

\* cleanupSocket was called twice in a row for one session while another
\* session has artifacts on disk.
C16_Witness ==
  /\ LastCall.op = "cleanupSocket" /\ LastCall.prev = "cleanupSocket"
  /\ \E s \in Sessions \ {LastCall.sess} : tracker.disk[s] # {}

\* ---- what a stream contains, read off the stream itself
\* The complete (newline-terminated) lines of a stream, in order.
RECURSIVE LinesOf(_)
LinesOf(st) ==
  IF ~HasNL(st) THEN << >>
  ELSE << SubSeq(st, 1, IndexOfNL(st) - 1) >>
         \o LinesOf(SubSeq(st, IndexOfNL(st) + 1, Len(st)))

\* What follows the last newline of a stream.
RECURSIVE TrailingPartial(_)
TrailingPartial(st) ==
  IF ~HasNL(st) THEN st ELSE TrailingPartial(SubSeq(st, IndexOfNL(st) + 1, Len(st)))

IsWhitespaceOnly(line) == \A i \in 1..Len(line) : line[i] = SP

\* The messages of a stream: its complete lines that are not blank.
Messages(st) == SelectSeq(LinesOf(st), LAMBDA l : ~IsWhitespaceOnly(l))

\* The action the dispatcher sees for a message ("x": it does not decode).
ActOf(line) == IF parseCommand(line).success THEN parseCommand(line).action ELSE "x"

ActsOf(st) == [i \in 1..Len(Messages(st)) |-> ActOf(Messages(st)[i])]

\* The messages up to the first close command: what one handler invocation
\* dispatches when every call resolves.
RECURSIVE UpToClose(_)
UpToClose(acts) ==
  IF acts = << >> THEN << >>
  ELSE IF Head(acts) = "c" THEN << "c" >>
  ELSE << Head(acts) >> \o UpToClose(Tail(acts))

Delivered == SubSeq(feed.stream, 1, feed.sent)

\* The action of the k-th message framed on connection c, taken from its
\* response or from the handler that holds it.
FramedAct(c, k) ==
  IF \E i \in Idx(c) : out[c][i].req = k
    THEN (CHOOSE r \in {out[c][i] : i \in Idx(c)} : r.req = k).act
  ELSE IF \E h \in handlers[c] : h.req = k
    THEN (CHOOSE h \in handlers[c] : h.req = k).act
  ELSE "lost"

FramedActs(c) == [k \in 1..nframed[c] |-> FramedAct(c, k)]

IsPrefixOf(a, b) == Len(a) <= Len(b) /\ a = SubSeq(b, 1, Len(a))

\* The whole stream was delivered and no handler is suspended.
Quiescent == feed.sent = Len(feed.stream) /\ handlers[1] = {} /\ dpc = "listening"

CloseAnsweredOn(c) == \E i \in Idx(c) : out[c][i].act = "c" /\ out[c][i].ok

\* C17 as stated: however the stream is split into data events, the messages
\* handed to the dispatcher are those handed to it when the stream arrives as
\* one chunk (every call resolving: the messages up to the first close).
C17_ChunkIndependent ==
  (Quiescent /\ nfail = 0) => FramedActs(1) = UpToClose(ActsOf(feed.stream))

\* C17 as amended: the messages framed are always the first messages of the
\* delivered stream, in order; once the stream is delivered and the handlers
\* are done, they are all its messages and the buffer holds the partial
\* trailing line, unless a close command was executed and answered.
C17_UntilClose ==
  /\ IsPrefixOf(FramedActs(1), ActsOf(Delivered))
  /\ (Quiescent /\ ~CloseAnsweredOn(1)) =>
        /\ FramedActs(1) = ActsOf(feed.stream)
        /\ buffer[1] = TrailingPartial(feed.stream)

\* A message split over two data events was framed once its newline arrived.
C17_Witness ==
  /\ Quiescent /\ ndata = 2
  /\ feed.stream = << "n", NL >>
  /\ Len(out[1]) = 1 /\ out[1][1].ok

\* C18: a line that is empty or holds only whitespace gets no response, is not
\* decoded, dispatched or counted, does not launch the resource, and the
\* lines after it are framed as if it were absent.
C18_BlankSkipped ==
  /\ Len(out[1]) + Cardinality(handlers[1]) <= Len(Messages(Delivered))
  /\ nframed[1] <= Len(Messages(Delivered))
  /\ Messages(Delivered) = << >> =>
        (out[1] = << >> /\ handlers[1] = {} /\ ~launched /\ ~shuttingDown)
  /\ (Quiescent /\ ~CloseAnsweredOn(1)) => Len(out[1]) = Len(Messages(feed.stream))

\* A whitespace-only line was delivered ahead of a command; only the command
\* was answered.
C18_Witness ==
  /\ Quiescent
  /\ feed.stream = << SP, NL, "n", NL >>
  /\ Len(out[1]) = 1 /\ out[1][1].act = "n"

\* The id the codec salvages from a line that does not decode.
SalvagedId(line) == parseCommand(line).id

\* C19: a line that does not decode gets one error response, tagged with the
\* salvaged id or with 'unknown'; it is never held by a handler (so it
\* reaches neither the gate nor the driver), starts no launch and no
\* shutdown, and the lines after it are processed.
C19_DecodeFailure ==
  /\ \A i \in Idx(1) :
        LET line == Messages(Delivered)[out[1][i].req] IN
        ~parseCommand(line).success =>
          /\ out[1][i].act = "x" /\ ~out[1][i].ok /\ ~out[1][i].auto
          /\ out[1][i].id = (IF SalvagedId(line) = "null" THEN "unknown" ELSE SalvagedId(line))
          /\ \A j \in Idx(1) : out[1][j].req = out[1][i].req => j = i
  /\ \A h \in handlers[1] : parseCommand(Messages(Delivered)[h.req]).success
  /\ (\A k \in 1..Len(ActsOf(Delivered)) : ActsOf(Delivered)[k] = "x") =>
        (handlers[1] = {} /\ ~launched /\ ~shuttingDown
           /\ Len(out[1]) = Len(Messages(Delivered)))
  /\ (Quiescent /\ ~CloseAnsweredOn(1)) => Len(out[1]) = Len(ActsOf(feed.stream))

\* A line with a salvageable id failed to decode and was answered with that
\* id; the command behind it was executed.
C19_Witness ==
  /\ Quiescent
  /\ feed.stream = << "y", NL, "n", NL >>
  /\ Len(out[1]) = 2 /\ out[1][1].id = "own" /\ out[1][1].act = "x" /\ out[1][2].ok

\* A step in which a call awaited by a data handler (browser.launch at the
\* gate, executeCommand) rejected.
HandlerCallRejected == nfail' = nfail + 1 /\ spc' = spc

\* C20: when a call awaited for a command raises, the handler writes one
\* error response carrying the exception's message and nothing else changes
\* but that connection: the process lives on, no shutdown starts, the other
\* connections keep their buffers, responses and handlers, and the handler
\* goes on with the lines left in its buffer.
C20_DriverErrorCaught ==
  [][HandlerCallRejected =>
       \E c \in Conns : \E h \in handlers[c] :
         /\ h \notin handlers'[c]
         /\ Len(out'[c]) > Len(out[c])
         /\ SubSeq(out'[c], 1, Len(out[c])) = out[c]
         /\ LET resp == out'[c][Len(out[c]) + 1] IN
              /\ resp.req = h.req /\ resp.act = h.act
              /\ ~resp.ok /\ resp.id = "error" /\ resp.msg = "err.message"
         /\ \A i \in (Len(out[c]) + 2)..Len(out'[c]) : out'[c][i].act = "x"
         /\ \A d \in Conns \ {c} :
              out'[d] = out[d] /\ handlers'[d] = handlers[d] /\ buffer'[d] = buffer[d]
         /\ alive' /\ shuttingDown' = shuttingDown /\ timers' = timers
         /\ files' = files /\ tlog' = tlog
         /\ HasNL(buffer'[c]) => handlers'[c] \ handlers[c] # {}
  ]_vars

\* A command failed in the driver and was answered with the error; the
\* handler has gone on to the next line of its buffer, and the process runs.
C20_Witness ==
  /\ alive
  /\ \E c \in Conns : \E i \in Idx(c) : \E h \in handlers[c] :
       /\ out[c][i].msg = "err.message" /\ out[c][i].act = "c"
       /\ h.req = out[c][i].req + 1

\* ---------------------------------------------------------------------- C21
\* The step in which the browser.launch awaited at the gate by handler h of
\* connection c rejects.
LaunchRejected(c, h) ==
  /\ h \in handlers[c] /\ h.pc = "launch"
  /\ nfail' = nfail + 1 /\ exitCode' = -1
  /\ h \notin handlers'[c]

\* The responses written on c for request k.
ResponsesTo(o, k) == {i \in 1..Len(o) : o[i].req = k}

\* C21: when the auto-launch of a command fails, exactly one error response
\* is written for that command, the command is not forwarded to the driver,
\* the resource remains uninitialized, and the next non-lifecycle command
\* goes through the auto-launch gate again.
C21_LaunchFailure ==
  [][\A c \in Conns : \A h \in handlers[c] :
       LaunchRejected(c, h) =>
         /\ ResponsesTo(out[c], h.req) = {}
         /\ Cardinality(ResponsesTo(out'[c], h.req)) = 1
         /\ \A i \in ResponsesTo(out'[c], h.req) : ~out'[c][i].ok
         /\ \A g \in handlers'[c] : g.req # h.req
         /\ ~launched'
         /\ \A g \in handlers'[c] \ handlers[c] : g.act = "n" => g.pc = "launch"]_vars

\* ------------------------------------------------ the TCP-fallback port
\* Length of a session name in HashSpec.
MaxName == 5

\* UTF-16 code units a session name is made of: "a", the largest code unit,
\* and the code units of a five-unit name whose hash is the minimum 32-bit
\* value (2325*31^4 + 9*31^3 + 30*31^2 + 12*31 + 2 = 2^31).
CharCodes == {2, 9, 12, 30, 97, 2325, 65535}

SessionNames == UNION { [1..k -> CharCodes] : k \in 0..MaxName }

\* A 32-bit integer is held as two 16-bit halves, [hi, lo], its value modulo
\* 2^32; it is negative as a signed integer iff its top bit is set.
Half == 65536
Int32(hi, lo) == [hi |-> hi % Half, lo |-> lo % Half]
IsNegative(a) == a.hi >= Half \div 2

Add32(a, b) ==
  LET l == a.lo + b.lo
  IN  Int32(a.hi + b.hi + (l \div Half), l)

\* Two's complement negation.
Neg32(a) == Add32(Int32(Half - 1 - a.hi, Half - 1 - a.lo), Int32(0, 1))

\* hash << 5
Shl5(a) ==
  LET l == a.lo * 32
  IN  Int32(a.hi * 32 + (l \div Half), l)

\* hash = (hash << 5) - hash + str.charCodeAt(i); hash |= 0.  The shift wraps
\* to 32 bits, the subtraction and the addition are exact in a double, and
\* |= 0 wraps the exact result: the value modulo 2^32.
HashStep(a, code) == Add32(Add32(Shl5(a), Neg32(a)), Int32(0, code))

RECURSIVE HashFrom(_, _, _)
HashFrom(a, name, i) ==
  IF i > Len(name) THEN a ELSE HashFrom(HashStep(a, name[i]), name, i + 1)

\* The for loop of getPortForSession, from hash = 0.
HashOf(name) == HashFrom(Int32(0, 0), name, 1)

\* daemon.ts:47
PORT_BASE == 49152
PORT_SPAN == 16383

\* x % 16383 of a non-negative x given by its halves (65536 % 16383 = 4).
Rem(hi, lo) == (hi * (Half % PORT_SPAN) + lo) % PORT_SPAN

\* Math.abs in 32-bit integer arithmetic: the minimum value stays negative, and
\* the remainder of a negative number is negative.
AbsRem_Wrapped(a) ==
  LET m == IF IsNegative(a) THEN Neg32(a) ELSE a
  IN  IF IsNegative(m) THEN 0 - Rem(Half - m.hi, 0) ELSE Rem(m.hi, m.lo)

\* Math.abs(hash) % 16383: Math.abs works on the double, so the magnitude of
\* the minimum 32-bit value is 2^31, which the halves of its negation hold.
AbsRem(a) ==
  LET m == IF IsNegative(a) THEN Neg32(a) ELSE a
  IN  Rem(m.hi, m.lo)

getPortForSession(name) == PORT_BASE + AbsRem(HashOf(name))

\* process.env.AGENT_BROWSER_SESSION || 'default', as code units
DefaultSession == << 100, 101, 102, 97, 117, 108, 116 >>

\* A process that resolves endpoints and has not started a daemon.
ResolverIdle ==
  /\ ProcessInit
  /\ streamPort = 0
  /\ peer = "unknown"
  /\ feed = NoFeed
  /\ tracker = NoTracker
  /\ config = NoConfig
  /\ recorder = NoRecorder
  /\ codegen = NoCodegen

\* One session name, any name of the bound, on the TCP platform.
HashInit ==
  /\ ResolverIdle
  /\ isWindows = TRUE
  /\ files = {}
  /\ \E name \in SessionNames :
       resolver = [session |-> name, currentSession |-> DefaultSession, calls |-> << >>]

\* A call getPortForSession(session).
GetPortForSessionCall ==
  /\ resolver.calls = << >>
  /\ resolver' = [resolver EXCEPT
       !.calls = << [fn |-> "getPortForSession", explicit |-> TRUE,
                     ret |-> getPortForSession(resolver.session)] >>]
  /\ UNCHANGED << daemonVars, peer, feed, tracker, config, recorder, codegen >>

HashSpec == HashInit /\ [][GetPortForSessionCall]_vars

\* ---------------------------------------------------------------------- C22
\* h*31 on the halves, modulo 2^32.
Times31(a) ==
  LET l == a.lo * 31
  IN  Int32(a.hi * 31 + (l \div Half), l)

RECURSIVE Fold31(_, _, _)
Fold31(a, name, i) ==
  IF i > Len(name) THEN a
  ELSE Fold31(Add32(Times31(a), Int32(0, name[i])), name, i + 1)

\* The signed value of a 32-bit integer.
Signed(a) == IF IsNegative(a) THEN (a.hi - Half) * Half + a.lo ELSE a.hi * Half + a.lo

\* |v| mod 16383 for a signed 32-bit v (|v| = (-(v + 1)) + 1 when v < 0).
AbsMod(v) ==
  IF v >= 0 THEN v % PORT_SPAN ELSE (((0 - (v + 1)) % PORT_SPAN) + 1) % PORT_SPAN

MinInt32 == Int32(Half \div 2, 0)

\* C22: for every session name the TCP-fallback port equals
\* 49152 + (|h| mod 16383), h being the fold h := h*31 + charCode wrapped to a
\* signed 32-bit integer at every step, and it lies in [49152, 65535), also
\* for the empty name and when h is the minimum 32-bit value.
C22_PortFormula ==
  \A i \in 1..Len(resolver.calls) :
    resolver.calls[i].fn = "getPortForSession" =>
      LET h == Fold31(Int32(0, 0), resolver.session, 1)
          port == resolver.calls[i].ret
      IN  /\ HashOf(resolver.session) = h
          /\ port = 49152 + AbsMod(Signed(h))
          /\ port >= 49152 /\ port < 65535

\* The port of a name whose hash is the minimum 32-bit value was computed.
C22_Witness ==
  /\ resolver.calls # << >>
  /\ HashOf(resolver.session) = MinInt32
  /\ resolver.calls[1].ret = 49160

\* -------------------------------------------------- address resolution
\* Number of getSocketPath / getConnectionInfo calls in ResolverSpec.
MaxCalls == 2

\* The session names of ResolverSpec: 'default', "a", and a name whose hash
\* is the minimum 32-bit value.
ResolverNames == { DefaultSession, << 97 >>, << 2325, 9, 30, 12, 2 >> }

Coalesce_Current(given, session, cur) == cur

\* session ?? currentSession
Coalesce(given, session, cur) == IF given THEN session ELSE cur

\* path.join(os.tmpdir(), `agent-browser-${sess}.sock`)
SocketFile(sess) == << "os.tmpdir()", "agent-browser-", sess, ".sock" >>

\* getSocketPath(session?)
SocketPath(given, session, cur, win) ==
  LET sess == Coalesce(given, session, cur)
  IN  IF win THEN << "String", getPortForSession(sess) >> ELSE SocketFile(sess)

\* getConnectionInfo(session?)
ConnectionInfo(given, session, cur, win) ==
  LET sess == Coalesce(given, session, cur)
  IN  IF win THEN [type |-> "tcp", port |-> getPortForSession(sess)]
             ELSE [type |-> "unix", path |-> SocketFile(sess)]

\* The process on either platform, whatever is on disk, and the session whose
\* endpoint is resolved.
ResolverInit ==
  /\ ResolverIdle
  /\ isWindows \in BOOLEAN
  /\ files \in {{}, StaleFiles}
  /\ \E name \in ResolverNames :
       resolver = [session |-> name, currentSession |-> DefaultSession, calls |-> << >>]

\* setSession(s)
SetSession(s) ==
  /\ resolver.currentSession # s
  /\ resolver' = [resolver EXCEPT !.currentSession = s]
  /\ UNCHANGED << daemonVars, peer, feed, tracker, config, recorder, codegen >>

\* What a call returned, and the state of the process it was made in.
Call(fn, given, ret) ==
  [fn |-> fn, explicit |-> given, ret |-> ret,
   currentSession |-> resolver.currentSession, files |-> files, dpc |-> dpc]

\* getSocketPath(session) if given, else getSocketPath()
GetSocketPathCall(given) ==
  /\ Len(resolver.calls) < MaxCalls
  /\ resolver' = [resolver EXCEPT !.calls = Append(@,
       Call("getSocketPath", given,
            SocketPath(given, resolver.session, resolver.currentSession, isWindows)))]
  /\ UNCHANGED << daemonVars, peer, feed, tracker, config, recorder, codegen >>

\* getConnectionInfo(session) if given, else getConnectionInfo()
GetConnectionInfoCall(given) ==
  /\ Len(resolver.calls) < MaxCalls
  /\ resolver' = [resolver EXCEPT !.calls = Append(@,
       Call("getConnectionInfo", given,
            ConnectionInfo(given, resolver.session, resolver.currentSession, isWindows)))]
  /\ UNCHANGED << daemonVars, peer, feed, tracker, config, recorder, codegen >>

\* cleanupSocket() of the current session's artifacts.
ResolverCleanup ==
  /\ dpc = "boot" /\ files # {}
  /\ files' = cleanupSocket(files)
  /\ UNCHANGED << isWindows, streamPort, dpc, streamServer, launched, shuttingDown,
                  timers, spc, buffer, out, nframed, handlers, ndata, nfail, tlog,
                  exitCode, exitCause >>
  /\ Aux

ResolverNext ==
  \/ \E s \in ResolverNames : SetSession(s)
  \/ \E given \in BOOLEAN : GetSocketPathCall(given)
  \/ \E given \in BOOLEAN : GetConnectionInfoCall(given)
  \/ ResolverCleanup
  \/ StartDaemon /\ Aux

ResolverSpec == ResolverInit /\ [][ResolverNext]_vars

\* ---------------------------------------------------------------------- C23
\* Calls i and j name the session explicitly and are calls of one function.
SameResolution(i, j) ==
  /\ resolver.calls[i].explicit /\ resolver.calls[j].explicit
  /\ resolver.calls[i].fn = resolver.calls[j].fn

\* C23: address resolution is a stable function of (platform, session):
\* resolving the endpoint of one session twice yields the same value,
\* whatever setSession, startup, cleanup or the artifacts on disk did between
\* the two calls.
C23_StableEndpoint ==
  \A i, j \in 1..Len(resolver.calls) :
    SameResolution(i, j) => resolver.calls[i].ret = resolver.calls[j].ret

\* The endpoint of a session was resolved twice, with another current
\* session, other artifacts on disk and a started daemon at the second call.
C23_Witness ==
  /\ Len(resolver.calls) = 2
  /\ SameResolution(1, 2)
  /\ resolver.calls[1].currentSession # resolver.calls[2].currentSession
  /\ resolver.calls[2].currentSession # resolver.session
  /\ resolver.calls[1].files # resolver.calls[2].files
  /\ resolver.calls[1].dpc = "boot" /\ resolver.calls[2].dpc = "listening"

\* ---------------------------------------------------------------------- C24
\* Requests a connection can make within the bound (two lines per chunk).
Requests == 1..(2 * MaxData)

\* C24: a command whose driver execution never resolves on one connection
\* does not block the others: every request received on connection 2 is
\* answered (unless the process ends first), whatever the handlers of
\* connection 1 are waiting for.
C24_OtherConnectionAnswered ==
  \A k \in Requests :
    (\E h \in handlers[2] : h.req = k) ~> (ResponsesTo(out[2], k) # {} \/ ~alive)

\* Connection 1 is waiting for the driver, and a request that connection 2
\* made afterwards has been executed and answered.
C24_Witness ==
  /\ \E h \in handlers[1] : h.pc = "exec" /\ h.act = "n"
  /\ \E i \in Idx(2) : out[2][i].ok /\ out[2][i].act = "n"

\* ---------------------------------------------------------------------- C25
\* C25: during a signal-triggered shutdown a failure of browser.close() or of
\* streamServer.stop() is not re-thrown: the listener is still stopped, the
\* session artifacts are still cleared, and the process exits with status 0.
C25_ShutdownBestEffort ==
  spc = "rejected" =>
    /\ exitCode = 0
    /\ CountBy(tlog, "serverClose", "signal") = 1
    /\ CountBy(tlog, "cleanup", "signal") = 1

\* -------------------------------------------- the artifacts of all sessions
\* path.join(os.tmpdir(), `agent-browser-${sess}.pid`)
PidFile(sess) == << "os.tmpdir()", "agent-browser-", sess, ".pid" >>

\* path.join(os.tmpdir(), `agent-browser-${sess}.port`)
PortFile(sess) == << "os.tmpdir()", "agent-browser-", sess, ".port" >>

StreamPortFile_Shared(sess) == << "os.tmpdir()", "agent-browser", ".stream" >>

\* path.join(os.tmpdir(), `agent-browser-${sess}.stream`)
StreamPortFile(sess) == << "os.tmpdir()", "agent-browser-", sess, ".stream" >>

\* The path of artifact `file` of session sess.
ArtifactPath(sess, file) ==
  IF file = getPidFile THEN PidFile(sess)
  ELSE IF file = getStreamPortFile THEN StreamPortFile(sess)
  ELSE IF file = getPortFile THEN PortFile(sess)
  ELSE SocketFile(sess)

\* The artifacts of session sess among the paths P of the temp directory, and
\* P once the artifacts of sess are f.
View(P, sess) == {file \in SessionArtifacts : ArtifactPath(sess, file) \in P}
Put(P, sess, f) ==
  (P \ {ArtifactPath(sess, file) : file \in SessionArtifacts})
    \cup {ArtifactPath(sess, file) : file \in f}

\* The files startDaemon leaves behind once it listens: stale artifacts are
\* cleared, then the stream-port file (stream server enabled), the pid file
\* and the port file (Windows) or the bound socket (POSIX) are created.
StartFiles(f, stream) ==
  cleanupSocket(f) \cup (IF stream THEN {getStreamPortFile} ELSE {})
                  \cup {getPidFile}
                  \cup (IF isWindows THEN {getPortFile} ELSE {getSocketPath})

\* The files a daemon leaves behind when it shuts down or exits.
ExitFiles(f) == cleanupSocket(serverClose(f))

\* The temp directory with any artifacts of the sessions, no daemon running.
DiskInit ==
  /\ DaemonInit
  /\ streamPort = 0
  /\ files = {}
  /\ peer = "unknown"
  /\ feed = NoFeed
  /\ UnitsIdle
  /\ \E P \in SUBSET {ArtifactPath(s, file) : s \in Sessions, file \in SessionArtifacts} :
       tracker = [paths |-> P, running |-> {},
                  call |-> [op |-> "none", sess |-> "default", touched |-> {}]]

\* The temp directory after an operation for session sess that takes the
\* artifacts of sess to g, writing the files `written`.
DiskOp(op, sess, g, written, running) ==
  LET f == View(tracker.paths, sess)
  IN  [paths |-> Put(tracker.paths, sess, g), running |-> running,
       call |-> [op |-> op, sess |-> sess,
                 touched |-> {ArtifactPath(sess, file) : file \in (f \ g) \cup written}]]

DiskFrame == UNCHANGED << daemonVars, peer, feed, resolver, config, recorder, codegen >>

\* cleanupSocket(sess)
DiskCleanup(sess) ==
  /\ tracker' = DiskOp("cleanupSocket", sess, cleanupSocket(View(tracker.paths, sess)),
                       {}, tracker.running)
  /\ DiskFrame

\* isDaemonRunning(sess), whatever the pid file holds and names
DiskIsDaemonRunning(sess) ==
  /\ \E text \in PidTexts, procs \in {"running", "gone", "denied"} :
       tracker' = DiskOp("isDaemonRunning", sess,
                         isDaemonRunning(View(tracker.paths, sess), text, procs).files,
                         {}, tracker.running)
  /\ DiskFrame

\* A daemon of session sess starts and listens.
DiskDaemonStart(sess) ==
  /\ sess \notin tracker.running
  /\ \E stream \in BOOLEAN :
       LET g == StartFiles(View(tracker.paths, sess), stream)
       IN  tracker' = DiskOp("startDaemon", sess, g, g, tracker.running \cup {sess})
  /\ DiskFrame

\* The daemon of session sess shuts down or exits.
DiskDaemonExit(sess) ==
  /\ sess \in tracker.running
  /\ tracker' = DiskOp("exit", sess, ExitFiles(View(tracker.paths, sess)), {},
                       tracker.running \ {sess})
  /\ DiskFrame

DiskNext ==
  \/ \E sess \in Sessions : DiskCleanup(sess)
  \/ \E sess \in Sessions : DiskIsDaemonRunning(sess)
  \/ \E sess \in Sessions : DiskDaemonStart(sess)
  \/ \E sess \in Sessions : DiskDaemonExit(sess)

DiskSpec == DiskInit /\ [][DiskNext]_vars

\* ---------------------------------------------------------------------- C26
\* The artifact paths of the sessions other than sess.
PathsOfOthers(sess) ==
  {ArtifactPath(b, file) : b \in Sessions \ {sess}, file \in SessionArtifacts}

\* C26: sessions are isolated on disk: no operation performed for a session
\* (cleanupSocket, isDaemonRunning, startup, shutdown or exit of its daemon)
\* creates, modifies or deletes an artifact file of another session.
C26_SessionsIsolated ==
  [][/\ tracker'.call.touched \cap PathsOfOthers(tracker'.call.sess) = {}
     /\ \A b \in Sessions \ {tracker'.call.sess} :
          View(tracker'.paths, b) = View(tracker.paths, b)]_vars

\* A daemon of one session has started and written its files while the other
\* session has all its artifacts on disk.
C26_Witness ==
  /\ tracker.call.op = "startDaemon"
  /\ getStreamPortFile \in View(tracker.paths, tracker.call.sess)
  /\ \E b \in Sessions \ {tracker.call.sess} : View(tracker.paths, b) = SessionArtifacts

\* ------------------------------------------------------ the codegen recorder
\* CodegenRecorder of src/unnamed/part_000 (codegen.ts): recordAction,
\* generate and save of one recorder constructed with an output path.

\* Number of actions a recorder holds in RecorderSpec.
MaxActions == 2

\* The commands recordAction is called with: the action, and the url of a
\* navigate.  A "frame" command here names neither selector nor frame name.
Commands ==
  { [action |-> a, url |-> ""] :
      a \in {"click", "snapshot", "url", "codegen_status", "launch", "close",
             "recording_start", "viewport", "frame", "frobnicate"} }
    \cup { [action |-> "navigate", url |-> u] : u \in {"u1", "u2"} }

Null == << >>

generateCode_LifecycleUnhandled(command) ==
  IF command.action \in {"snapshot", "url", "codegen_status", "frame"} THEN Null
  ELSE << "code or comment", command.action, command.url >>

\* generateCode: the switch over command.action.  Read-only operations, the
\* codegen meta commands, launch/close and a frame command without target
\* return null; recording, emulation and unhandled actions return a comment;
\* the others return Playwright code.
generateCode(command) ==
  IF command.action \in {"snapshot", "url"} THEN Null
  ELSE IF command.action = "codegen_status" THEN Null
  ELSE IF command.action \in {"launch", "close"} THEN Null
  ELSE IF command.action = "frame" THEN Null
  ELSE IF command.action \in {"recording_start", "viewport"}
    THEN << "//", command.action >>
  ELSE IF command.action = "navigate" THEN << "await page.goto", command.url >>
  ELSE IF command.action = "click" THEN << "await page.locator.click" >>
  ELSE << "// Unhandled action", command.action >>

Succeeded_Always(success) == TRUE

\* if (!response.success) return;
Succeeded(success) == success

\* setCurrentUrl(url) on the recorder r
setCurrentUrl(r, url) ==
  [r EXCEPT !.currentUrl = url, !.url = IF @ = "" THEN url ELSE @]

Push_Front(actions, entry) == << entry >> \o actions

\* this.actions.push({command, code, timestamp})
Push(actions, entry) == Append(actions, entry)

\* recordAction(command, response, refMap) on the recorder r
recordAction(r, command, success) ==
  IF ~Succeeded(success) THEN r
  ELSE LET code == generateCode(command) IN
       IF code = Null THEN r
       ELSE LET pushed == [r EXCEPT !.actions = Push(@, [command |-> command.action,
                                                           code |-> code])]
            IN  IF command.action = "navigate" THEN setCurrentUrl(pushed, command.url)
                ELSE pushed

\* getOutputPath() with options.path and options.cwd given
getOutputPath == << "cwd", "test.json" >>

\* generateCodeString(): the code of every recorded action, in order
generateCodeString(r) == [i \in 1..Len(r.actions) |-> r.actions[i].code]

\* What save() writes: the code (codeOnly), else the JSON of generateOutput().
FileContent(r) ==
  IF r.codeOnly THEN [code |-> generateCodeString(r), actions |-> << >>]
  ELSE [code |-> << >>, actions |-> r.actions]

generate_Saves(r, disk) == [exists |-> TRUE, content |-> FileContent(r)]

\* The file at getOutputPath() after generate(): nothing is written.
generate(r, disk) == disk

\* The result of generate() / save()
Result(r, noSave) ==
  [path |-> IF noSave THEN << >> ELSE getOutputPath,
   actionCount |-> Len(r.actions), codeOnly |-> r.codeOnly,
   code |-> generateCodeString(r), noSave |-> noSave]

NoResult == [path |-> << >>, actionCount |-> 0, codeOnly |-> FALSE, code |-> << >>,
             noSave |-> FALSE]

\* A recorder just constructed, and the file at its output path.
RecorderInit ==
  /\ DaemonInit
  /\ streamPort = 0
  /\ files = {}
  /\ peer = "unknown"
  /\ feed = NoFeed
  /\ tracker = NoTracker
  /\ resolver = NoResolver
  /\ config = NoConfig
  /\ codegen = NoCodegen
  /\ \E codeOnly \in BOOLEAN :
       LET r == [codeOnly |-> codeOnly, actions |-> << >>, url |-> "", currentUrl |-> "",
                 ended |-> FALSE]
       IN  recorder = [rec |-> r, file |-> [exists |-> FALSE, content |-> FileContent(r)],
                       generated |-> FALSE,
                       last |-> [op |-> "none", command |-> "none", success |-> FALSE,
                                 before |-> r, fileBefore |-> FALSE, result |-> NoResult]]

RecorderFrame ==
  UNCHANGED << daemonVars, peer, feed, tracker, resolver, config, codegen >>

\* recorder.recordAction(command, response, refMap)
RecordActionCall(command, success) ==
  /\ Len(recorder.rec.actions) < MaxActions
  /\ recorder' = [recorder EXCEPT
       !.rec = recordAction(@, command, success),
       !.last = [op |-> "recordAction", command |-> command.action, success |-> success,
                 before |-> recorder.rec, fileBefore |-> recorder.file.exists,
                 result |-> NoResult]]
  /\ RecorderFrame

\* recorder.generate()
GenerateCall ==
  /\ ~recorder.generated
  /\ LET r == [recorder.rec EXCEPT !.ended = TRUE]
     IN  recorder' = [recorder EXCEPT
           !.rec = r,
           !.file = generate(r, @),
           !.generated = TRUE,
           !.last = [op |-> "generate", command |-> "none", success |-> TRUE,
                     before |-> recorder.rec, fileBefore |-> recorder.file.exists,
                     result |-> Result(r, TRUE)]]
  /\ RecorderFrame

\* recorder.save()
SaveCall ==
  /\ recorder.last.op # "save"
  /\ LET r == [recorder.rec EXCEPT !.ended = TRUE]
     IN  recorder' = [recorder EXCEPT
           !.rec = r,
           !.file = [exists |-> TRUE, content |-> FileContent(r)],
           !.last = [op |-> "save", command |-> "none", success |-> TRUE,
                     before |-> recorder.rec, fileBefore |-> recorder.file.exists,
                     result |-> Result(r, FALSE)]]
  /\ RecorderFrame

\* The result of getStatus()
StatusResult(r) ==
  [path |-> getOutputPath, actionCount |-> Len(r.actions), codeOnly |-> r.codeOnly,
   code |-> << >>, noSave |-> FALSE]

\* recorder.getStatus()
GetStatusCall ==
  /\ recorder.last.op # "getStatus"
  /\ recorder' = [recorder EXCEPT
       !.last = [op |-> "getStatus", command |-> "none", success |-> TRUE,
                 before |-> recorder.rec, fileBefore |-> recorder.file.exists,
                 result |-> StatusResult(recorder.rec)]]
  /\ RecorderFrame

RecorderNext ==
  \/ \E command \in Commands, success \in BOOLEAN : RecordActionCall(command, success)
  \/ GenerateCall
  \/ SaveCall
  \/ GetStatusCall

RecorderSpec == RecorderInit /\ [][RecorderNext]_vars

\* ---------------------------------------------------------------------- C27
\* C27: recordAction called with a response whose success is false leaves the
\* recorder unchanged: the action list, the action count and the metadata
\* url are as before the call, for every command kind.
C27_FailureNotRecorded ==
  (recorder.last.op = "recordAction" /\ ~recorder.last.success) =>
    /\ recorder.rec.actions = recorder.last.before.actions
    /\ Len(recorder.rec.actions) = Len(recorder.last.before.actions)
    /\ recorder.rec.url = recorder.last.before.url

\* A navigate that failed was passed to a recorder that holds an action and
\* no url yet.
C27_Witness ==
  /\ recorder.last.op = "recordAction" /\ ~recorder.last.success
  /\ recorder.last.command = "navigate"
  /\ recorder.rec.actions # << >> /\ recorder.rec.url = ""

\* ---------------------------------------------------------------------- C28
\* C28: recordAction never records a command for which no code is generated:
\* successful read-only commands, codegen meta commands and launch/close
\* leave the action count unchanged, whereas a successful command that maps
\* to code or to a comment increases it by exactly one.
C28_OnlyCodeRecorded ==
  /\ \A i \in 1..Len(recorder.rec.actions) : recorder.rec.actions[i].code # Null
  /\ (recorder.last.op = "recordAction" /\ recorder.last.success) =>
       LET n == Len(recorder.rec.actions) - Len(recorder.last.before.actions)
       IN  /\ recorder.last.command \in {"snapshot", "url", "codegen_status",
                                         "launch", "close"} => n = 0
           /\ recorder.last.command \in {"navigate", "click", "recording_start",
                                         "viewport"} => n = 1

\* A successful close was passed to a recorder that holds the comment of a
\* recording_start.
C28_Witness ==
  /\ recorder.last.op = "recordAction" /\ recorder.last.success
  /\ recorder.last.command = "close"
  /\ \E i \in 1..Len(recorder.rec.actions) :
       recorder.rec.actions[i].command = "recording_start"

\* ---------------------------------------------------------------------- C29
\* C29: generate() returns noSave = true, path = '' and the number of
\* recorded actions, writes nothing to the file system and leaves the
\* recorded actions as they are, so that a later save() writes all of them.
C29_GenerateDoesNotSave ==
  /\ recorder.last.op = "generate" =>
       /\ recorder.last.result.noSave
       /\ recorder.last.result.path = << >>
       /\ recorder.last.result.actionCount = Len(recorder.last.before.actions)
       /\ recorder.file.exists = recorder.last.fileBefore
       /\ recorder.rec.actions = recorder.last.before.actions
  /\ (recorder.generated /\ ~recorder.file.exists) => recorder.last.op # "save"
  /\ (recorder.generated /\ recorder.last.op = "save") =>
       /\ recorder.file.exists
       /\ recorder.last.result.actionCount = Len(recorder.rec.actions)
       /\ IF recorder.rec.codeOnly
            THEN recorder.file.content.code = generateCodeString(recorder.rec)
            ELSE recorder.file.content.actions = recorder.rec.actions

\* generate() and then save() were called on a recorder that holds an action
\* and whose output file did not exist until the save.
C29_Witness ==
  /\ recorder.generated /\ recorder.last.op = "save"
  /\ recorder.last.fileBefore = FALSE
  /\ recorder.rec.actions # << >>

\* ------------------------------------------------ the stream port setting
\* options?.streamPort as passed to startDaemon
StreamPortOptions ==
  { [given |-> FALSE, value |-> 0] }
    \cup { [given |-> TRUE, value |-> v] : v \in {0, -1, NaN, DEFAULT_STREAM_PORT} }

\* process.env.AGENT_BROWSER_STREAM_PORT: unset, or a text ("7" is a digit)
StreamPortEnvs ==
  { [set |-> FALSE, text |-> << >>] }
    \cup { [set |-> TRUE, text |-> t] : t \in { << >>, <<"7">>, <<"x">>, <<"7", "x">> } }

\* The number written with the digits ds.
RECURSIVE DigitsValue(_)
DigitsValue(ds) ==
  IF ds = << >> THEN 0
  ELSE 10 * DigitsValue(SubSeq(ds, 1, Len(ds) - 1)) + 7

\* parseInt(text, 10) as a number
parseIntNumber(text) ==
  LET ds == parseInt(text) IN IF ds = "NaN" THEN NaN ELSE DigitsValue(ds)

\* options?.streamPort ?? (process.env.AGENT_BROWSER_STREAM_PORT
\*   ? parseInt(process.env.AGENT_BROWSER_STREAM_PORT, 10) : 0)
StreamPortOf(option, env) ==
  IF option.given THEN option.value
  ELSE IF env.set /\ env.text # << >> THEN parseIntNumber(env.text)
  ELSE 0

\* startDaemon is entered with any option and any environment.
ConfigInit ==
  /\ ProcessInit
  /\ isWindows \in BOOLEAN
  /\ files \in {{}, StaleFiles}
  /\ peer = "unknown"
  /\ feed = NoFeed
  /\ tracker = NoTracker
  /\ resolver = NoResolver
  /\ recorder = NoRecorder
  /\ codegen = NoCodegen
  /\ \E option \in StreamPortOptions, env \in StreamPortEnvs :
       /\ config = [option |-> option, env |-> env]
       /\ streamPort = StreamPortOf(option, env)

\* startDaemon up to the listening daemon, or to the exit of a failed start.
ConfigNext ==
  \/ StartDaemon /\ Aux
  \/ StreamStarted /\ Aux
  \/ StreamStartFailed /\ Aux
  \/ ServerError /\ Aux

ConfigSpec == ConfigInit /\ [][ConfigNext]_vars

\* ---------------------------------------------------------------------- C30
\* The configured stream port (explicit option, else the environment
\* variable) is a number greater than 0.
PortPositive ==
  IF config.option.given
    THEN config.option.value \in 1..65535
    ELSE config.env.set /\ config.env.text # << >> /\ config.env.text[1] = "7"

CodegenEnvs == {"unset", "1", "true"}

\* if (process.env.AGENT_BROWSER_CODEGEN === '1' && !browser.isCodegenActive())
\*   browser.startCodegen({...}), run without an await after the launch of the
\* gate resolved; starts counts the startCodegen calls of the gate.
AutoStartCodegen(cg) ==
  IF cg.env = "1" /\ ~cg.active
    THEN [cg EXCEPT !.active = TRUE, !.starts = @ + 1]
    ELSE cg

\* browser.isCodegenActive() after the driver executed a command: a command
\* other than launch and close may be one that starts or stops the recorder
\* (codegen_start, codegen_stop); launch and close leave it as it is.
CodegenAfter(cg, action, ok, active) ==
  IF ok /\ action = "n" THEN [cg EXCEPT !.active = active] ELSE cg

\* The chunks of GateSpec: a command, a launch, a close with a command
\* behind it.
GateChunks == { <<"n", NL>>, <<"l", NL>>, <<"c", NL, "n", NL>> }

\* A POSIX daemon without stream server, with any AGENT_BROWSER_CODEGEN.
GateInit ==
  /\ ProcessInit
  /\ isWindows = FALSE
  /\ streamPort = 0
  /\ files = {}
  /\ peer = "unknown"
  /\ feed = NoFeed
  /\ tracker = NoTracker
  /\ resolver = NoResolver
  /\ config = NoConfig
  /\ recorder = NoRecorder
  /\ \E env \in CodegenEnvs : codegen = [env |-> env, active |-> FALSE, starts |-> 0]

\* The recorder becomes cg; the other auxiliary variables stay.
GateAux(cg) ==
  /\ codegen' = cg
  /\ UNCHANGED << peer, feed, tracker, resolver, config, recorder >>

GateNext ==
  \/ StartDaemon /\ dpc' = "listening" /\ GateAux(codegen)
  \/ \E c \in Conns, chunk \in GateChunks : Data(c, chunk) /\ GateAux(codegen)
  \/ \E c \in Conns : \E h \in Awaiting(c), ok \in BOOLEAN :
       LaunchDone(c, h, ok) /\ GateAux(IF ok THEN AutoStartCodegen(codegen) ELSE codegen)
  \/ \E c \in Conns : \E h \in Awaiting(c), ok \in BOOLEAN, active \in BOOLEAN :
       ExecDone(c, h, ok) /\ GateAux(CodegenAfter(codegen, h.act, ok, active))
  \/ \E c \in Conns : \E h \in Awaiting(c), ok \in BOOLEAN :
       CloseDone(c, h, ok) /\ GateAux(codegen)
  \/ TimerFire /\ GateAux(codegen)

GateSpec == GateInit /\ [][GateNext]_vars

\* ---------------------------------------------------------------------- C31
\* The step in which the launch awaited at the gate by some handler resolves.
GateLaunchResolved ==
  \E c \in Conns : \E h \in handlers[c] :
    /\ h.pc = "launch" /\ h.act = "n"
    /\ [h EXCEPT !.pc = "exec", !.gate = "auto"] \in handlers'[c]
    /\ nfail' = nfail /\ launched'

\* C31: the automatic recorder is started only inside the auto-launch gate,
\* after a successful auto-launch, only when AGENT_BROWSER_CODEGEN is '1' and
\* the recorder is not already active; it is never started twice, and it is
\* not started when the auto-launch fails or when the resource was
\* initialized by an explicit launch command.
C31_AutoCodegen ==
  [][codegen'.starts # codegen.starts =>
       /\ GateLaunchResolved
       /\ codegen.env = "1" /\ ~codegen.active
       /\ codegen'.starts = 1]_vars

\* ---------------------------------------------------------------------- C32
\* The handlers that call browser.launch at the gate in this step.
LaunchInvoked(c) == {h \in handlers'[c] \ handlers[c] : h.pc = "launch"}

\* C32: after shutdown has been initiated (shuttingDown set by a close
\* command or a signal) no command received on any connection causes
\* browser.launch to be invoked.
C32_NoLaunchAfterShutdown ==
  [][(shuttingDown /\ ndata' = ndata + 1) =>
       \A c \in Conns : LaunchInvoked(c) = {}]_vars

\* ---------------------------------------------------------------------- C33
\* The step in which the driver call awaited for the close command held by
\* handler h of connection c rejects.
CloseRejected(c, h) ==
  /\ h \in handlers[c] /\ h.pc = "close"
  /\ nfail' = nfail + 1 /\ exitCode' = -1
  /\ h \notin handlers'[c]

\* C33: if the driver raises while executing a close command, the client
\* receives an error response and the shutdown is not initiated: the flag
\* stays as it was (false if it was false), no exit timer is scheduled, the
\* listener keeps serving and the session artifacts stay in place.
C33_FailedCloseKeepsServing ==
  [][\A c \in Conns : \A h \in handlers[c] :
       CloseRejected(c, h) =>
         /\ Cardinality(ResponsesTo(out'[c], h.req)) = 1
         /\ \A i \in ResponsesTo(out'[c], h.req) :
              ~out'[c][i].ok /\ out'[c][i].msg = "err.message"
         /\ shuttingDown' = shuttingDown /\ timers' = timers
         /\ ~shuttingDown => (~shuttingDown' /\ timers' = 0)
         /\ dpc' = "listening" /\ files' = files /\ files' # {}]_vars

\* A close command was answered with an error and the daemon serves on, no
\* shutdown initiated, its artifacts on disk.
C33_Witness ==
  /\ \E c \in Conns : \E i \in Idx(c) : out[c][i].act = "c" /\ ~out[c][i].ok
  /\ Serving /\ ~shuttingDown /\ timers = 0
  /\ getPidFile \in files

(***************************************************************************)
(* Lock marker of a session shared by two daemon processes (PeerSpec): the *)
(* daemon that was already running (the peer) and the one being started.   *)
(***************************************************************************)

\* The peer is still bound to the session's endpoint: a TCP port stays bound
\* whatever happens to the files; a socket path stays the peer's until the
\* starting daemon's cleanupSocket unlinks it.
PeerListening ==
  peer = "live" /\ (isWindows \/ (dpc = "boot" /\ getSocketPath \in files))

\* The starting daemon is alive and bound to the endpoint.
SelfListening == alive /\ dpc = "listening"

\* The process whose pid the pid file holds: the file found at startup is the
\* peer's; startDaemon unlinks it and writes process.pid in its place.
MarkerOwner ==
  IF getPidFile \notin files THEN "none"
  ELSE IF dpc \in {"boot", "streamStarting"} THEN "peer"
  ELSE "self"

MarkerOwnerListening ==
  \/ MarkerOwner = "peer" /\ PeerListening
  \/ MarkerOwner = "self" /\ SelfListening

\* C34: whenever a daemon of the session is alive and listening on the
\* session's endpoint, the pid file exists and holds the pid of a live process
\* listening on that endpoint, and on POSIX the socket file exists.
C34_LockMarkerConsistent ==
  (PeerListening \/ SelfListening) =>
     /\ MarkerOwnerListening
     /\ ~isWindows => getSocketPath \in files

(***************************************************************************)
(* OwnerSpec: the stream of FrameSpec arrives on connection 1 in any       *)
(* chunking while a second client sends on connection 2.                   *)
(***************************************************************************)
\* What the second client sends: a command, a close, or the beginning of a line.
OwnerChunks == { << "n", NL >>, << "c", NL >>, << "n" >> }

OwnerNext ==
  \/ FrameNext
  \/ \E chunk \in OwnerChunks : Data(2, chunk) /\ Aux
  \/ \E h \in handlers[2], ok \in BOOLEAN : LaunchDone(2, h, ok) /\ Aux
  \/ \E h \in handlers[2], ok \in BOOLEAN : ExecDone(2, h, ok) /\ Aux
  \/ \E h \in handlers[2], ok \in BOOLEAN : CloseDone(2, h, ok) /\ Aux

OwnerSpec == FrameInit /\ [][OwnerNext]_vars

\* The characters of connection 1 already taken out of its buffer.
Consumed == SubSeq(Delivered, 1, Len(Delivered) - Len(buffer[1]))

\* The responses and suspended handlers of connection c that belong to its
\* k-th message.
HoldersOf(c, k) ==
  Cardinality({i \in Idx(c) : out[c][i].req = k})
    + Cardinality({h \in handlers[c] : h.req = k})

\* Delivered characters are either still in the buffer or were taken out as
\* whole lines, and every message taken out is with exactly one handler or
\* has exactly one response.
LinesAccounted ==
  /\ Len(buffer[1]) <= Len(Delivered)
  /\ Delivered = Consumed \o buffer[1]
  /\ Consumed = << >> \/ Consumed[Len(Consumed)] = NL
  /\ nframed[1] = Len(Messages(Consumed))
  /\ \A k \in 1..nframed[1] : HoldersOf(1, k) = 1
  /\ FramedActs(1) = ActsOf(Consumed)

\* A step that changes the buffer of a connection leaves every other
\* connection's buffer, handlers and responses alone.
OwnBuffer ==
  \A c \in Conns : buffer'[c] # buffer[c] =>
    \A d \in Conns \ {c} :
      /\ buffer'[d] = buffer[d] /\ nframed'[d] = nframed[d]
      /\ handlers'[d] = handlers[d] /\ out'[d] = out[d]

\* C35: a line leaves its connection's buffer when it is extracted, so every
\* line is dispatched exactly once and no character of a later line is lost,
\* also while handlers of the connection are suspended and interleave; a
\* connection's buffer changes only in steps of its own connection.
C35_LineExtractedOnce == [][LinesAccounted' /\ OwnBuffer]_vars

\* Two handlers of connection 1 were suspended together and the second one
\* answered first; both messages were answered once.
C35_Witness ==
  /\ Quiescent /\ ndata = 2
  /\ feed.stream = << "n", NL, "n", NL >>
  /\ Len(out[1]) = 2 /\ out[1][1].req = 2 /\ out[1][2].req = 1

\* The decode result of the line that response r of connection 1 answers.
DecodedFor(r) == parseCommand(Messages(Delivered)[r.req])

\* C36: an error response to a command that decoded (its driver call or its
\* auto-launch threw) carries the fixed id 'error' and the exception's
\* message, not the request's id; an error response carrying the request's
\* salvaged id or 'unknown' answers a line that did not decode.
C36_CatchIdIsError ==
  \A i \in Idx(1) :
    LET r == out[1][i]
        pr == DecodedFor(r)
    IN ~r.ok =>
         /\ pr.success => (r.id = "error" /\ r.id # pr.id /\ r.msg = "err.message")
         /\ ~pr.success => /\ r.id = (IF pr.id = "null" THEN "unknown" ELSE pr.id)
                           /\ r.msg = "parseResult.error"
         /\ r.id \in {pr.id, "unknown"} => ~pr.success

\* On one connection an auto-launch failed for a decoded command, which was
\* answered with id 'error', and a line that did not decode was answered
\* with the id salvaged from it.
C36_Witness ==
  \E i, j \in Idx(1) :
    /\ out[1][i].act = "n" /\ ~out[1][i].ok /\ out[1][i].auto /\ out[1][i].id = "error"
    /\ out[1][j].act = "x" /\ ~out[1][j].ok /\ out[1][j].id = "own"

\* getActionCount()
getActionCount(r) == Len(r.actions)

\* The code lines of a list of recorded actions, in list order.
CodesOf(actions) == [i \in 1..Len(actions) |-> actions[i].code]

\* The call just made was a recordAction with a successful response and a
\* command that generates code.
RecordedCall(command) ==
  /\ recorder'.last.op = "recordAction"
  /\ recorder'.last.success
  /\ recorder'.last.command = command.action
  /\ generateCode(command) # Null

\* C37: the recorded list is append-only and order-preserving: a recordAction
\* call with a successful response and a code-generating command adds its
\* action at the end and raises getActionCount() by one, every other call
\* (recordAction, save(), generate(), getStatus()) leaves the list and the
\* count alone, and the code that save()/generate() return and write lists
\* the actions' code in recording order.
C37_AppendOnly ==
  [][LET before == recorder.rec.actions
         after == recorder'.rec.actions
     IN /\ IsPrefixOf(before, after)
        /\ getActionCount(recorder'.rec) =
             getActionCount(recorder.rec)
               + (IF \E command \in Commands : RecordedCall(command) THEN 1 ELSE 0)
        /\ \A command \in Commands : RecordedCall(command) /\ after # before =>
             /\ after[Len(after)].command = command.action
             /\ after[Len(after)].code \in {generateCode(c) : c \in Commands}
        /\ recorder'.last.op \in {"save", "generate", "getStatus"} =>
             /\ after = before
             /\ recorder'.last.result.actionCount = getActionCount(recorder.rec)
        /\ recorder'.last.op \in {"save", "generate"} =>
             recorder'.last.result.code = CodesOf(before)
        /\ (recorder'.last.op = "save" /\ recorder'.rec.codeOnly) =>
             recorder'.file.content.code = CodesOf(before)
  ]_vars

\* A navigate and then a click were recorded and save() returned their code
\* in that order.
C37_Witness ==
  /\ recorder.last.op = "save"
  /\ getActionCount(recorder.rec) = 2
  /\ recorder.rec.actions[1].command = "navigate"
  /\ recorder.rec.actions[2].command = "click"
  /\ recorder.last.result.code =
       << generateCode([action |-> "navigate", url |-> "u1"]),
          generateCode([action |-> "click", url |-> ""]) >>


====
